---- MODULE Spec2Model ----
(***************************************************************************)
(* A model of ez-excel-mgt: the coordinate codec (utils/excel.rs), the     *)
(* lenient aggregator (utils/aggregate.rs) and the ExcelTemplate cursor    *)
(* with its write operations (template.rs).                                *)
(*                                                                         *)
(* Text is a sequence of one-character strings, so that parsing and        *)
(* formatting are computed character by character as the code does.        *)
(* A worksheet is a function from the coordinates <<col, row>> of its      *)
(* existing cells to their text; a workbook is a function from the names   *)
(* of its sheets to worksheets.                                            *)
(***************************************************************************)
EXTENDS Integers, Sequences, FiniteSets, TLC

VARIABLES
    spreadsheet,                    \* ExcelTemplate.spreadsheet
    current_sheet_name,             \* ExcelTemplate.current_sheet_name
    current_cell_in_current_sheet,  \* ExcelTemplate.current_cell_in_current_sheet
    call,                           \* the most recent call and its arguments
    result,                         \* what that call returned
    pre,                            \* the template's fields when that call started
    n_calls,                        \* calls made so far
    codec,                          \* a run of the coordinate codec
    agg,                            \* a run of the aggregator
    disk,                           \* the spreadsheet files on disk, by path
    pre_disk                        \* the files when the most recent call started

vars == <<spreadsheet, current_sheet_name, current_cell_in_current_sheet,
          call, result, pre, n_calls, codec, agg, disk, pre_disk>>

\* Option and Result: NONE / Err is the empty tuple, Some(x) / Ok(x) is <<x>>
NONE == <<>>

Some(x) == <<x>>

IsSome(o) == o # <<>>

Unwrap(o) == o[1]

UnwrapOr(o, d) == IF o = <<>> THEN d ELSE o[1]

-----------------------------------------------------------------------------
(* Bounds of the model *)

MaxLetters == 2
MaxIndex == 710
MaxPairCol == 28
MaxPairRow == 11

-----------------------------------------------------------------------------
(* Characters and integers *)

\* 'A'..'Z' in code order; the position of a letter is c as u32 - 'A' as u32 + 1
Upper == <<"A", "B", "C", "D", "E", "F", "G", "H", "I", "J", "K", "L", "M",
           "N", "O", "P", "Q", "R", "S", "T", "U", "V", "W", "X", "Y", "Z">>

Lower == <<"a", "b", "c", "d", "e", "f", "g", "h", "i", "j", "k", "l", "m",
           "n", "o", "p", "q", "r", "s", "t", "u", "v", "w", "x", "y", "z">>

Digits == <<"0", "1", "2", "3", "4", "5", "6", "7", "8", "9">>

Range(s) == {s[i] : i \in DOMAIN s}

is_alphabetic(c) == c \in Range(Upper) \cup Range(Lower)

is_numeric(c) == c \in Range(Digits)

\* c as u32 - 'A' as u32 + 1; 'a' is 32 code points after 'A'
LetterValue(c) ==
    IF c \in Range(Upper) THEN CHOOSE i \in DOMAIN Upper : Upper[i] = c
    ELSE 32 + (CHOOSE i \in DOMAIN Lower : Lower[i] = c)

DigitValue(c) == (CHOOSE i \in DOMAIN Digits : Digits[i] = c) - 1

Radix == 26

\* u32 arithmetic is written without its wrap at 2^32: every index below stays
\* under 26^4, far from it
RECURSIVE Pow(_, _)
Pow(b, e) == IF e = 0 THEN 1 ELSE b * Pow(b, e - 1)

Reverse(s) == [i \in 1..Len(s) |-> s[Len(s) + 1 - i]]

Filter(s, Test(_)) == SelectSeq(s, Test)

Max(S) == IF S = {} THEN 0 ELSE CHOOSE x \in S : \A y \in S : y <= x

\* u32::to_string / i32::to_string: the decimal digits, most significant first
RECURSIVE NatToString(_)
NatToString(n) ==
    IF n < 10 THEN <<Digits[n + 1]>>
    ELSE NatToString(n \div 10) \o <<Digits[(n % 10) + 1]>>

IntToString(n) == IF n < 0 THEN <<"-">> \o NatToString(0 - n) ELSE NatToString(n)

\* the value of a string of decimal digits
RECURSIVE DigitsValue(_)
DigitsValue(s) ==
    IF s = <<>> THEN 0
    ELSE 10 * DigitsValue(SubSeq(s, 1, Len(s) - 1)) + DigitValue(s[Len(s)])

\* str::parse::<u32>: digits only and non-empty (the texts here are too short
\* to reach 2^32)
ParseU32(s) ==
    IF s # <<>> /\ (\A i \in DOMAIN s : is_numeric(s[i]))
    THEN Some(DigitsValue(s))
    ELSE NONE

-----------------------------------------------------------------------------
(* Coordinate codec: utils/excel.rs *)

\* the fold of excel_col_to_index over col.chars().rev().enumerate(), in u32
RECURSIVE ColFold(_, _, _)
ColFold(rev, i, acc) ==
    IF i > Len(rev) THEN acc
    ELSE ColFold(rev, i + 1, acc + (LetterValue(rev[i]) * Pow(Radix, i - 1)))

excel_col_to_index(col) == ColFold(Reverse(col), 1, 0)

\* the while loop without the borrow: the letters taken as plain base-26 digits
RECURSIVE ColLoopPlainDigits(_, _)
ColLoopPlainDigits(col_num, col_str) ==
    IF col_num > 0
    THEN ColLoopPlainDigits(col_num \div Radix,
                            Append(col_str, Upper[(col_num % Radix) + 1]))
    ELSE col_str

\* the while loop of index_to_excel_col
RECURSIVE ColLoop(_, _)
ColLoop(col_num, col_str) ==
    IF col_num > 0
    THEN ColLoop((col_num - 1) \div Radix,
                 Append(col_str, Upper[((col_num - 1) % Radix) + 1]))
    ELSE col_str

index_to_excel_col(col) == Reverse(ColLoop(col, <<>>))

\* NONE stands for the panic of unwrap() on a row that does not parse
excel_to_index(cell) ==
    LET col_str == Filter(cell, is_alphabetic)
        row_str == Filter(cell, is_numeric)
        col == excel_col_to_index(col_str)
        row == ParseU32(row_str)
    IN  IF row = NONE THEN NONE ELSE Some(<<col, Unwrap(row)>>)

index_to_excel(col, row) == index_to_excel_col(col) \o NatToString(row)

-----------------------------------------------------------------------------
(* f64, kept exact: the rational n/d with d > 0 in lowest terms; d = 0 is  *)
(* what a division by zero leaves (0/0 is NaN, n/0 an infinity).  Rounding *)
(* to 53 bits is left out: the texts used below denote short decimals.     *)

RECURSIVE GCD(_, _)
GCD(a, b) == IF b = 0 THEN a ELSE GCD(b, a % b)

Abs(x) == IF x < 0 THEN 0 - x ELSE x

Sign(x) == IF x < 0 THEN 0 - 1 ELSE IF x = 0 THEN 0 ELSE 1

F64(n, d) ==
    IF d = 0 THEN [n |-> Sign(n), d |-> 0]
    ELSE LET g == GCD(Abs(n), Abs(d))
         IN  [n |-> Sign(d) * (n \div g), d |-> Abs(d) \div g]

Zero == F64(0, 1)

NaN == F64(0, 0)

F64Add(a, b) ==
    IF a.d = 0 \/ b.d = 0
    THEN (IF a = NaN \/ b = NaN \/ (a.d = 0 /\ b.d = 0 /\ a.n # b.n) THEN NaN
          ELSE IF a.d = 0 THEN a ELSE b)
    ELSE F64(a.n * b.d + b.n * a.d, a.d * b.d)

F64Div(a, b) ==
    IF a.d = 0 \/ b.d = 0
    THEN (IF a = NaN \/ b = NaN \/ (a.d = 0 /\ b.d = 0) THEN NaN
          ELSE IF b.d = 0 THEN Zero ELSE F64(a.n * Sign(b.n), 0))
    ELSE F64(a.n * b.d, a.d * b.n)

IsDigits(s) == \A i \in DOMAIN s : is_numeric(s[i])

\* str::parse::<f64> on the decimal forms [-]digits[.digits]; anything else
\* among the texts used here (letters, the empty text) is an error
ParseF64(text) ==
    LET neg  == text # <<>> /\ text[1] = "-"
        body == IF neg THEN Tail(text) ELSE text
        dots == {i \in DOMAIN body : body[i] = "."}
        dot  == IF dots = {} THEN Len(body) + 1 ELSE CHOOSE i \in dots : TRUE
        ip   == SubSeq(body, 1, dot - 1)
        fp   == SubSeq(body, dot + 1, Len(body))
    IN  IF Cardinality(dots) <= 1 /\ IsDigits(ip) /\ IsDigits(fp) /\ Len(ip) + Len(fp) > 0
        THEN Some(F64((IF neg THEN 0 - 1 ELSE 1) * DigitsValue(ip \o fp), Pow(10, Len(fp))))
        ELSE NONE

I32Max == 2147483647

\* the conversion rounding down rather than toward zero
AsI32Floor(v) ==
    IF v.d = 0 THEN (IF v.n > 0 THEN I32Max ELSE IF v.n < 0 THEN 0 - I32Max - 1 ELSE 0)
    ELSE v.n \div v.d

\* `value as i32`: toward zero, saturating at the ends of i32, NaN to 0
AsI32(v) ==
    IF v.d = 0 THEN (IF v.n > 0 THEN I32Max ELSE IF v.n < 0 THEN 0 - I32Max - 1 ELSE 0)
    ELSE LET t == Sign(v.n) * (Abs(v.n) \div v.d)
         IN  IF t > I32Max THEN I32Max
             ELSE IF t < 0 - I32Max - 1 THEN 0 - I32Max - 1
             ELSE t

\* the digits after the decimal point, by long division, at most k of them
RECURSIVE FracDigits(_, _, _)
FracDigits(r, d, k) ==
    IF r = 0 \/ k = 0 THEN <<>>
    ELSE <<Digits[((10 * r) \div d) + 1]>> \o FracDigits((10 * r) % d, d, k - 1)

\* f64::to_string: "NaN", "inf", an integer without a point, else the decimal
F64ToString(v) ==
    IF v = NaN THEN <<"N", "a", "N">>
    ELSE IF v.d = 0 THEN (IF v.n < 0 THEN <<"-">> ELSE <<>>) \o <<"i", "n", "f">>
    ELSE LET a == Abs(v.n)
             whole == NatToString(a \div v.d)
             frac == FracDigits(a % v.d, v.d, 16)
         IN  (IF v.n < 0 THEN <<"-">> ELSE <<>>) \o whole
                 \o (IF frac = <<>> THEN <<>> ELSE <<".">> \o frac)

-----------------------------------------------------------------------------
(* Worksheet: the calls the code makes on umya_spreadsheet's Worksheet *)

get_cell(ws, c) == IF c \in DOMAIN ws THEN Some(ws[c]) ELSE NONE

get_value(ws, c) == IF c \in DOMAIN ws THEN ws[c] ELSE <<>>

\* get_cell_mut(c).set_value(v): the cell is created when it is not there
set_cell(ws, c, v) == [x \in (DOMAIN ws) \cup {c} |-> IF x = c THEN v ELSE ws[x]]

get_highest_column(ws) == Max({c[1] : c \in DOMAIN ws})

get_highest_row(ws) == Max({c[2] : c \in DOMAIN ws})

get_highest_column_and_row(ws) == <<get_highest_column(ws), get_highest_row(ws)>>

\* remove_row(first, num): the rows go and the rows below move up
remove_row(ws, first, num) ==
    LET kept == {c \in DOMAIN ws : c[2] < first \/ c[2] >= first + num}
        To(c) == IF c[2] < first THEN c ELSE <<c[1], c[2] - num>>
    IN  [x \in {To(c) : c \in kept} |-> ws[CHOOSE c \in kept : To(c) = x]]

\* remove_column(first, num): the columns go and the columns to the right move left
remove_column(ws, first, num) ==
    LET kept == {c \in DOMAIN ws : c[1] < first \/ c[1] >= first + num}
        To(c) == IF c[1] < first THEN c ELSE <<c[1] - num, c[2]>>
    IN  [x \in {To(c) : c \in kept} |-> ws[CHOOSE c \in kept : To(c) = x]]

-----------------------------------------------------------------------------
(* Lenient aggregator: utils/aggregate.rs *)

\* the cells of the range in the order of the loops: rows outside, columns inside
RowMajor(start_row, start_col, end_row, end_col) ==
    LET w == end_col - start_col + 1
        h == end_row - start_row + 1
    IN  [k \in 1..(w * h) |-> <<start_col + ((k - 1) % w), start_row + ((k - 1) \div w)>>]

\* the accumulation with = in place of +=
BumpAssign(vec, i, x) == [vec EXCEPT ![i] = x]

\* vec[i] += x
Bump(vec, i, x) == [vec EXCEPT ![i] = F64Add(@, x)]

\* one pass of the loop body over the cells order[k..]
RECURSIVE AggregateLoop(_, _, _, _, _, _)
AggregateLoop(source_sheet, order, k, start_row, start_col, acc) ==
    IF k > Len(order) THEN acc
    ELSE LET col == order[k][1]
             row == order[k][2]
             cell == get_cell(source_sheet, <<col, row>>)
             parsed == IF cell = NONE THEN NONE ELSE ParseF64(Unwrap(cell))
             next ==
                 IF parsed = NONE THEN acc
                 ELSE [sum_by_row |-> Bump(acc.sum_by_row, row - start_row + 1, Unwrap(parsed)),
                       sum_by_col |-> Bump(acc.sum_by_col, col - start_col + 1, Unwrap(parsed)),
                       count_not_numeric_by_row |->
                           Bump(acc.count_not_numeric_by_row, row - start_row + 1, F64(1, 1)),
                       count_not_numeric_by_col |->
                           Bump(acc.count_not_numeric_by_col, col - start_col + 1, F64(1, 1))]
         IN  AggregateLoop(source_sheet, order, k + 1, start_row, start_col, next)

\* the test of the Average arm with >= in place of >
any_counted_or_zero(count) == \E i \in DOMAIN count : count[i].n >= 0

\* the test of the Average arm with all in place of any
every_counted(count) == \A i \in DOMAIN count : count[i].n > 0

\* count.iter().any(|&c| c > 0.0)
any_counted(count) == \E i \in DOMAIN count : count[i].n > 0

aggregate_range(source_sheet, start_row, start_col, end_row, end_col, action, mode) ==
    LET zeros(n) == [i \in 1..n |-> Zero]
        acc0 == [sum_by_row |-> zeros(end_row - start_row + 1),
                 sum_by_col |-> zeros(end_col - start_col + 1),
                 count_not_numeric_by_row |-> zeros(end_row - start_row + 1),
                 count_not_numeric_by_col |-> zeros(end_col - start_col + 1)]
        acc == AggregateLoop(source_sheet, RowMajor(start_row, start_col, end_row, end_col),
                             1, start_row, start_col, acc0)
        sum == IF mode = "Row" THEN acc.sum_by_row ELSE acc.sum_by_col
        count == IF mode = "Row" THEN acc.count_not_numeric_by_row
                 ELSE acc.count_not_numeric_by_col
    IN  CASE action = "Sum" -> Some(sum)
          [] action = "Count" -> Some(count)
          [] action = "Average" ->
                IF any_counted(count)
                THEN Some([i \in DOMAIN sum |-> F64Div(sum[i], count[i])])
                ELSE NONE

-----------------------------------------------------------------------------
(* Cell and range references: structs/excel.rs *)

CellTuple(row, col) == [tuple |-> <<row, col>>]

CellString(s) == [string |-> s]

IsTuple(x) == "tuple" \in DOMAIN x

\* ExcelCell::idx: <<col, row>>; NONE when excel_to_index panics
ExcelCell_idx(cell) ==
    IF IsTuple(cell) THEN Some(<<cell.tuple[2], cell.tuple[1]>>)
    ELSE excel_to_index(cell.string)

\* ExcelCell::default()
ExcelCell_default == CellTuple(1, 1)

RangeTuple(r1, c1, r2, c2) == [range |-> <<<<r1, c1>>, <<r2, c2>>>>]

RangeString(s) == [string |-> s]

\* s.split(':'): the pieces of s between the colons
RECURSIVE Split(_)
Split(s) ==
    LET colons == {i \in DOMAIN s : s[i] = ":"}
    IN  IF colons = {} THEN <<s>>
        ELSE LET i == CHOOSE j \in colons : \A k \in colons : j <= k
             IN  <<SubSeq(s, 1, i - 1)>> \o Split(SubSeq(s, i + 1, Len(s)))

\* ExcelRange::idx: <<<<col1, row1>>, <<col2, row2>>>>; NONE when nth(1).unwrap()
\* or excel_to_index panics
ExcelRange_idx(r) ==
    IF "range" \in DOMAIN r
    THEN Some(<<<<r.range[1][2], r.range[1][1]>>, <<r.range[2][2], r.range[2][1]>>>>)
    ELSE LET parts == Split(r.string)
         IN  IF Len(parts) < 2 THEN NONE
             ELSE LET a == excel_to_index(parts[1])
                      b == excel_to_index(parts[2])
                  IN  IF a = NONE \/ b = NONE THEN NONE
                      ELSE Some(<<Unwrap(a), Unwrap(b)>>)

\* FromPyObject for ExcelHeader: [res, header].  obj is what the caller passed:
\* a text [string], a pair of numbers [tuple], a pair of pairs [range], or
\* something else.  obj.extract::<ExcelRange>() takes every text and every
\* pair of pairs, and idx() is then called on it.
ExcelHeader_extract(obj) ==
    IF "range" \in DOMAIN obj \/ "string" \in DOMAIN obj
    THEN LET idx == ExcelRange_idx(obj)
         IN  IF idx = NONE THEN [res |-> "Panic", header |-> NONE]
             ELSE IF Unwrap(idx)[1][2] = Unwrap(idx)[2][2]
                     \/ Unwrap(idx)[1][1] = Unwrap(idx)[2][1]
             THEN [res |-> "Ok", header |-> Some([h |-> "Range", range |-> obj])]
             ELSE [res |-> "InvalidReference", header |-> NONE]
    ELSE IF "tuple" \in DOMAIN obj
    THEN [res |-> "Ok", header |-> Some([h |-> "Cell", cell |-> obj])]
    ELSE IF "string" \in DOMAIN obj
    THEN (CASE obj.string = <<"f", "i", "r", "s", "t">> ->
                   [res |-> "Ok", header |-> Some([h |-> "First"])]
            [] obj.string = <<"l", "a", "s", "t">> ->
                   [res |-> "Ok", header |-> Some([h |-> "Last"])]
            [] OTHER -> [res |-> "InvalidReference", header |-> NONE])
    ELSE [res |-> "InvalidReference", header |-> NONE]

-----------------------------------------------------------------------------
(* Values written by the caller and values of a DataFrame; the payload of  *)
(* a value is held in a field named after its type                         *)

TRUE_text == <<"T", "R", "U", "E">>

FALSE_text == <<"F", "A", "L", "S", "E">>

\* Value::value (structs/options.rs)
Value_value(value) ==
    CASE value.k = "None" -> <<>>
      [] value.k = "Int" -> IntToString(value.int)
      [] value.k = "Boolean" -> (IF value.bool THEN TRUE_text ELSE FALSE_text)
      [] value.k = "Float" -> F64ToString(value.float)
      [] value.k = "String" -> value.str

\* bool::to_string
bool_to_string(b) == IF b THEN <<"t", "r", "u", "e">> ELSE <<"f", "a", "l", "s", "e">>

\* convert_anyvalue_to_string (utils/py2rs.rs)
convert_anyvalue_to_string(value) ==
    CASE value.k = "Null" -> <<>>
      [] value.k = "String" -> value.str
      [] value.k = "Int32" -> IntToString(value.int)
      [] value.k = "Int64" -> IntToString(value.int)
      [] value.k = "Float64" -> F64ToString(value.float)
      [] value.k = "Boolean" -> bool_to_string(value.bool)

\* a DataFrame is the sequence of its columns [name, values]
df_get_column_names(df) == [i \in DOMAIN df |-> df[i].name]

df_height(df) == IF df = <<>> THEN 0 ELSE Len(df[1].values)

df_column(df, name) ==
    LET hits == {i \in DOMAIN df : df[i].name = name}
    IN  IF hits = {} THEN NONE ELSE Some(df[CHOOSE i \in hits : TRUE].values)

-----------------------------------------------------------------------------
(* ExcelTemplate: template.rs.  An operation takes the template's fields   *)
(* t = [spreadsheet, current_sheet_name, current_cell_in_current_sheet]    *)
(* and yields the fields it leaves together with what it returns.          *)

Template(sp, sheet, cell) ==
    [spreadsheet |-> sp, current_sheet_name |-> sheet,
     current_cell_in_current_sheet |-> cell]

Return(res, t) == [res |-> res, t |-> t]

\* get_sheet_by_name / get_sheet_by_name_mut
HasSheet(t, name) == name \in DOMAIN t.spreadsheet

WithSheet(t, name, ws) == [t EXCEPT !.spreadsheet = [@ EXCEPT ![name] = ws]]

\* goto_sheet without the assignment of current_sheet_name
goto_sheet_cell_only(t, sheet_name, cell) ==
    Return("Ok", [t EXCEPT !.current_cell_in_current_sheet = cell])

\* goto_sheet that looks the sheet up before selecting it
goto_sheet_validating(t, sheet_name, cell) ==
    IF ~HasSheet(t, sheet_name) THEN Return("SheetNotFound", t)
    ELSE Return("Ok", [t EXCEPT !.current_sheet_name = Some(sheet_name),
                                !.current_cell_in_current_sheet = cell])

\* goto_sheet that keeps the selected cell when it is given none
goto_sheet_keeping_cell(t, sheet_name, cell) ==
    Return("Ok", [t EXCEPT !.current_sheet_name = Some(sheet_name),
                           !.current_cell_in_current_sheet =
                               IF cell = NONE THEN @ ELSE cell])

goto_sheet(t, sheet_name, cell) ==
    Return("Ok", [t EXCEPT !.current_sheet_name = Some(sheet_name),
                           !.current_cell_in_current_sheet = cell])

\* goto_cell that leaves the selected cell where it was
goto_cell_unmoved(t, cell) == Return("Ok", t)

goto_cell(t, cell) ==
    Return("Ok", [t EXCEPT !.current_cell_in_current_sheet = Some(cell)])

set_header_location(t, header, mode) ==
    IF t.current_sheet_name = NONE THEN Return("NoSheetSelected", t)
    ELSE LET sheet_name == Unwrap(t.current_sheet_name)
         IN  IF ~HasSheet(t, sheet_name) THEN Return("SheetNotFound", t)
             ELSE LET worksheet == t.spreadsheet[sheet_name]
                      hi == get_highest_column_and_row(worksheet)
                      r == IF header.h = "Range" THEN ExcelRange_idx(header.range) ELSE NONE
                      header_location ==
                          CASE header.h = "Range" ->
                                   CellTuple(Unwrap(r)[1][2], Unwrap(r)[1][1])
                            [] header.h = "Cell" -> header.cell
                            [] header.h = "First" -> ExcelCell_default
                            [] header.h = "Last" ->
                                   (IF mode = "Row" THEN CellTuple(hi[2], hi[1])
                                    ELSE CellTuple(hi[1], hi[2]))
                  IN  IF header.h = "Range" /\ r = NONE THEN Return("Panic", t)
                      ELSE IF ExcelCell_idx(header_location) = NONE
                      THEN Return("Panic",
                                  [t EXCEPT !.current_cell_in_current_sheet =
                                                Some(header_location)])
                      ELSE Return("Ok",
                                  [t EXCEPT !.current_cell_in_current_sheet =
                                                Some(header_location)])

\* write_cell that also selects the sheet and the cell it wrote
write_cell_selecting(t, sheet_name, cell, value) ==
    IF ~HasSheet(t, sheet_name) THEN Return("SheetNotFound", t)
    ELSE LET at == ExcelCell_idx(cell)
         IN  IF at = NONE THEN Return("Panic", t)
             ELSE Return("Ok", [WithSheet(t, sheet_name,
                                    set_cell(t.spreadsheet[sheet_name], Unwrap(at),
                                             Value_value(value)))
                                EXCEPT !.current_sheet_name = Some(sheet_name),
                                       !.current_cell_in_current_sheet = Some(cell)])

write_cell(t, sheet_name, cell, value) ==
    IF ~HasSheet(t, sheet_name) THEN Return("SheetNotFound", t)
    ELSE LET at == ExcelCell_idx(cell)
         IN  IF at = NONE THEN Return("Panic", t)
             ELSE Return("Ok", WithSheet(t, sheet_name,
                                set_cell(t.spreadsheet[sheet_name], Unwrap(at),
                                         Value_value(value))))

\* set_value with the two checks in the other order
set_value_cell_first(t, value) ==
    IF t.current_cell_in_current_sheet = NONE THEN Return("NoCellSelected", t)
    ELSE IF t.current_sheet_name = NONE THEN Return("NoSheetSelected", t)
    ELSE write_cell(t, Unwrap(t.current_sheet_name),
                    Unwrap(t.current_cell_in_current_sheet), value)

set_value(t, value) ==
    IF t.current_sheet_name = NONE THEN Return("NoSheetSelected", t)
    ELSE IF t.current_cell_in_current_sheet = NONE THEN Return("NoCellSelected", t)
    ELSE write_cell(t, Unwrap(t.current_sheet_name),
                    Unwrap(t.current_cell_in_current_sheet), value)

\* the coercion that keeps a text that does not parse
coerce_value_keeps_text(original_value, coerce) ==
    IF coerce \in {"None", "String"} THEN original_value
    ELSE LET parsed == ParseF64(original_value)
         IN  IF parsed = NONE THEN original_value
             ELSE IF coerce = "Integer" THEN IntToString(AsI32(Unwrap(parsed)))
             ELSE F64ToString(Unwrap(parsed))

\* the value copy_range_from writes for a source text under a coercion
coerce_value(original_value, coerce) ==
    IF coerce \in {"None", "String"} THEN original_value
    ELSE LET parsed == ParseF64(original_value)
         IN  IF parsed = NONE THEN <<>>
             ELSE IF coerce = "Integer" THEN IntToString(AsI32(Unwrap(parsed)))
             ELSE F64ToString(Unwrap(parsed))

\* the destination with the transpose flag left out
copy_destination_untransposed(current_cell_col, current_cell_row, col, row, start_col, start_row, transpose) ==
    <<current_cell_col + col - start_col, current_cell_row + row - start_row>>

\* where copy_range_from puts the source cell (col, row)
copy_destination(current_cell_col, current_cell_row, col, row, start_col, start_row, transpose) ==
    IF transpose
    THEN <<current_cell_col + row - start_row, current_cell_row + col - start_col>>
    ELSE <<current_cell_col + col - start_col, current_cell_row + row - start_row>>

\* the cells of the range in the order of copy_range_from's loops: columns
\* outside, rows inside
ColMajor(start_col, start_row, end_col, end_row) ==
    LET w == end_col - start_col + 1
        h == end_row - start_row + 1
    IN  [k \in 1..(w * h) |-> <<start_col + ((k - 1) \div h), start_row + ((k - 1) % h)>>]

RECURSIVE CopyLoop(_, _, _, _, _, _, _, _)
CopyLoop(worksheet, source_sheet, order, k, start, anchor, transpose, coerce) ==
    IF k > Len(order) THEN worksheet
    ELSE LET source_cell == get_cell(source_sheet, order[k])
             d == copy_destination(anchor[1], anchor[2], order[k][1], order[k][2],
                                   start[1], start[2], transpose)
             next == IF source_cell = NONE THEN worksheet
                     ELSE set_cell(worksheet, d, coerce_value(Unwrap(source_cell), coerce))
         IN  CopyLoop(next, source_sheet, order, k + 1, start, anchor, transpose, coerce)

\* source_workbook: what reader::xlsx::read(source_file_path) gives, NONE when
\* it fails
copy_range_from(t, source_workbook, source_sheet_name, source_range, transpose, coerce) ==
    IF t.current_sheet_name = NONE THEN Return("NoSheetSelected", t)
    ELSE IF ~HasSheet(t, Unwrap(t.current_sheet_name)) THEN Return("SheetNotFound", t)
    ELSE IF t.current_cell_in_current_sheet = NONE THEN Return("NoCellSelected", t)
    ELSE IF source_workbook = NONE THEN Return("IOError", t)
    ELSE IF source_sheet_name \notin DOMAIN Unwrap(source_workbook)
    THEN Return("SourceSheetNotFound", t)
    ELSE LET name == Unwrap(t.current_sheet_name)
             r == ExcelRange_idx(source_range)
             c == ExcelCell_idx(Unwrap(t.current_cell_in_current_sheet))
         IN  IF r = NONE \/ c = NONE THEN Return("Panic", t)
             ELSE Return("Ok", WithSheet(t, name,
                     CopyLoop(t.spreadsheet[name], Unwrap(source_workbook)[source_sheet_name],
                              ColMajor(Unwrap(r)[1][1], Unwrap(r)[1][2],
                                       Unwrap(r)[2][1], Unwrap(r)[2][2]),
                              1, Unwrap(r)[1], Unwrap(c),
                              UnwrapOr(transpose, FALSE), UnwrapOr(coerce, "None"))))

\* the loop writing the results along the other axis
RECURSIVE PasteLoopAcross(_, _, _, _, _)
PasteLoopAcross(worksheet, results, i, current_cell_idx, mode) ==
    IF i >= Len(results) THEN worksheet
    ELSE LET at == IF mode = "Row"
                   THEN <<current_cell_idx[1] + i, current_cell_idx[2]>>
                   ELSE <<current_cell_idx[1], current_cell_idx[2] + i>>
         IN  PasteLoopAcross(set_cell(worksheet, at, F64ToString(results[i + 1])),
                             results, i + 1, current_cell_idx, mode)

\* the loop of aggregate_range_from that writes the results
RECURSIVE PasteLoop(_, _, _, _, _)
PasteLoop(worksheet, results, i, current_cell_idx, mode) ==
    IF i >= Len(results) THEN worksheet
    ELSE LET at == IF mode = "Row"
                   THEN <<current_cell_idx[1], current_cell_idx[2] + i>>
                   ELSE <<current_cell_idx[1] + i, current_cell_idx[2]>>
         IN  PasteLoop(set_cell(worksheet, at, F64ToString(results[i + 1])),
                       results, i + 1, current_cell_idx, mode)

aggregate_range_from(t, source_workbook, source_sheet_name, source_range, action, mode) ==
    IF t.current_sheet_name = NONE THEN Return("NoSheetSelected", t)
    ELSE IF ~HasSheet(t, Unwrap(t.current_sheet_name)) THEN Return("SheetNotFound", t)
    ELSE IF t.current_cell_in_current_sheet = NONE THEN Return("NoCellSelected", t)
    ELSE IF source_workbook = NONE THEN Return("FileNotFound", t)
    ELSE IF source_sheet_name \notin DOMAIN Unwrap(source_workbook)
    THEN Return("SourceSheetNotFound", t)
    ELSE LET name == Unwrap(t.current_sheet_name)
             r == ExcelRange_idx(source_range)
             c == ExcelCell_idx(Unwrap(t.current_cell_in_current_sheet))
         IN  IF r = NONE THEN Return("Panic", t)
             ELSE LET results == aggregate_range(Unwrap(source_workbook)[source_sheet_name],
                                     Unwrap(r)[1][2], Unwrap(r)[1][1],
                                     Unwrap(r)[2][2], Unwrap(r)[2][1], action, mode)
                  IN  IF results = NONE THEN Return("DivisionByZero", t)
                      ELSE IF c = NONE THEN Return("Panic", t)
                      ELSE Return("Ok", WithSheet(t, name,
                              PasteLoop(t.spreadsheet[name], Unwrap(results), 0,
                                        Unwrap(c), mode)))

\* HashMap::insert
Insert(map, key, value) ==
    [x \in (DOMAIN map) \cup {key} |-> IF x = key THEN value ELSE map[x]]

\* the loop of get_header_map over first..=last
RECURSIVE HeaderLoop(_, _, _, _, _, _, _)
HeaderLoop(worksheet, mode, header_col, header_row, i, last, header_map) ==
    IF i > last THEN header_map
    ELSE LET at == IF mode = "Row" THEN <<i, header_row>> ELSE <<header_col, i>>
             col_name == get_value(worksheet, at)
         IN  HeaderLoop(worksheet, mode, header_col, header_row, i + 1, last,
                        Insert(header_map, col_name, at[1]))

\* get_header_map reading the header line from index 1
get_header_map_from_one(t, mode) ==
    IF t.current_sheet_name = NONE THEN [res |-> "NoSheetSelected", map |-> <<>>]
    ELSE IF ~HasSheet(t, Unwrap(t.current_sheet_name))
    THEN [res |-> "SheetNotFound", map |-> <<>>]
    ELSE IF t.current_cell_in_current_sheet = NONE
    THEN [res |-> "NoCellSelected", map |-> <<>>]
    ELSE LET worksheet == t.spreadsheet[Unwrap(t.current_sheet_name)]
             at == Unwrap(ExcelCell_idx(Unwrap(t.current_cell_in_current_sheet)))
             last == IF mode = "Row" THEN get_highest_column(worksheet)
                     ELSE get_highest_row(worksheet)
         IN  [res |-> "Ok",
              map |-> HeaderLoop(worksheet, mode, at[1], at[2], 1, last, <<>>)]

\* get_header_map: [res, map]
get_header_map(t, mode) ==
    IF t.current_sheet_name = NONE THEN [res |-> "NoSheetSelected", map |-> <<>>]
    ELSE IF ~HasSheet(t, Unwrap(t.current_sheet_name))
    THEN [res |-> "SheetNotFound", map |-> <<>>]
    ELSE IF t.current_cell_in_current_sheet = NONE
    THEN [res |-> "NoCellSelected", map |-> <<>>]
    ELSE LET worksheet == t.spreadsheet[Unwrap(t.current_sheet_name)]
             at == ExcelCell_idx(Unwrap(t.current_cell_in_current_sheet))
         IN  IF at = NONE THEN [res |-> "Panic", map |-> <<>>]
             ELSE LET header_col == Unwrap(at)[1]
                      header_row == Unwrap(at)[2]
                      first == IF mode = "Row" THEN header_col ELSE header_row
                      last == IF mode = "Row" THEN get_highest_column(worksheet)
                              ELSE get_highest_row(worksheet)
                  IN  [res |-> "Ok",
                       map |-> HeaderLoop(worksheet, mode, header_col, header_row,
                                          first, last, <<>>)]

\* the orders in which a HashMap may hand out its keys
Orders(keys) ==
    {p \in [1..Cardinality(keys) -> keys] : \A i, j \in DOMAIN p : p[i] = p[j] => i = j}

\* the second check of add_df_by_column_name, lenient: a DataFrame column the
\* sheet has no header for is entered at the column after the highest one
RECURSIVE AppendMissing(_, _, _, _)
AppendMissing(header_map, df_headers, k, worksheet) ==
    IF k > Len(df_headers) THEN header_map
    ELSE AppendMissing(
             IF df_headers[k] \in DOMAIN header_map THEN header_map
             ELSE Insert(header_map, df_headers[k], get_highest_column(worksheet) + 1),
             df_headers, k + 1, worksheet)

\* the writes of one DataFrame column: values i.. of series
RECURSIVE SeriesLoop(_, _, _, _, _, _, _, _)
SeriesLoop(worksheet, series, i, idx, current_col, current_row, mode, skip_null) ==
    IF i >= Len(series) THEN worksheet
    ELSE LET value == series[i + 1]
             at == IF mode = "Row" THEN <<idx, current_row + i>>
                   ELSE <<current_col + i, idx>>
             next == IF skip_null /\ value.k = "Null" THEN worksheet
                     ELSE set_cell(worksheet, at, convert_anyvalue_to_string(value))
         IN  SeriesLoop(next, series, i + 1, idx, current_col, current_row, mode, skip_null)

\* the loop over the entries of header_map, taken in the given order
RECURSIVE FillLoop(_, _, _, _, _, _, _, _, _)
FillLoop(worksheet, df, header_map, order, k, current_col, current_row, mode, skip_null) ==
    IF k > Len(order) THEN worksheet
    ELSE LET series == df_column(df, order[k])
             next == IF series = NONE THEN worksheet
                     ELSE SeriesLoop(worksheet, Unwrap(series), 0, header_map[order[k]],
                                     current_col, current_row, mode, skip_null)
         IN  FillLoop(next, df, header_map, order, k + 1, current_col, current_row,
                      mode, skip_null)

\* no removal: what lies beyond the last record stays
truncate_nothing(worksheet, current_col, current_row, height, mode) == worksheet

\* the removal of what lies beyond the last record
truncate(worksheet, current_col, current_row, height, mode) ==
    IF mode = "Row"
    THEN LET last_row == get_highest_row(worksheet)
             first_row_to_remove == current_row + height
         IN  IF first_row_to_remove <= last_row
             THEN remove_row(worksheet, first_row_to_remove,
                             last_row - first_row_to_remove + 1)
             ELSE worksheet
    ELSE LET last_col == get_highest_column(worksheet)
             first_col_to_remove == current_col + height
         IN  IF first_col_to_remove <= last_col
             THEN remove_column(worksheet,
                                excel_col_to_index(index_to_excel_col(first_col_to_remove)),
                                last_col - first_col_to_remove + 1)
             ELSE worksheet

\* the first check alone: a DataFrame column without a header goes unseen
column_check_headers_only(strict, header_map, df_headers) ==
    LET missing_in_df == {h \in DOMAIN header_map : h \notin Range(df_headers)}
    IN  IF strict /\ missing_in_df # {} THEN "ColumnMismatch" ELSE "Ok"

\* the two checks of add_df_by_column_name under strict: a header the DataFrame
\* has no column for, a DataFrame column the sheet has no header for
column_check(strict, header_map, df_headers) ==
    LET missing_in_df == {h \in DOMAIN header_map : h \notin Range(df_headers)}
        missing_in_sheet == {h \in Range(df_headers) : h \notin DOMAIN header_map}
    IN  IF strict /\ missing_in_df # {} THEN "ColumnMismatch"
        ELSE IF strict /\ missing_in_sheet # {} THEN "ColumnMismatch"
        ELSE "Ok"

\* add_df_by_column_name: the set of outcomes, one for each order in which the
\* HashMap may be walked.  Only the entries the DataFrame has a column for
\* write anything, so the orders are taken over those.
add_df_by_column_name(t, df, header_map, mode, strict, skip_null) ==
    IF t.current_sheet_name = NONE THEN {Return("NoSheetSelected", t)}
    ELSE IF ~HasSheet(t, Unwrap(t.current_sheet_name)) THEN {Return("SheetNotFound", t)}
    ELSE LET name == Unwrap(t.current_sheet_name)
             worksheet == t.spreadsheet[name]
             df_headers == df_get_column_names(df)
         IN  IF column_check(strict, header_map, df_headers) # "Ok"
             THEN {Return(column_check(strict, header_map, df_headers), t)}
             ELSE IF t.current_cell_in_current_sheet = NONE
             THEN {Return("NoCellSelected", t)}
             ELSE LET full_map == AppendMissing(header_map, df_headers, 1, worksheet)
                      at == ExcelCell_idx(Unwrap(t.current_cell_in_current_sheet))
                      current_col == Unwrap(at)[1]
                      current_row == Unwrap(at)[2]
                      height == df_height(df)
                  IN  IF at = NONE THEN {Return("Panic", t)}
                      ELSE {Return("Ok", WithSheet(t, name,
                                truncate(FillLoop(worksheet, df, full_map, order, 1,
                                                  current_col, current_row, mode, skip_null),
                                         current_col, current_row, height, mode))) :
                            order \in Orders((DOMAIN full_map) \cap Range(df_headers))}

\* the first cell left on the header
first_data_cell_on_header(mode, overwrite, header_col, header_row, last_col, last_row) ==
    <<header_col, header_row>>

\* the first cell with overwrite taken as set
first_data_cell_overwriting(mode, overwrite, header_col, header_row, last_col, last_row) ==
    IF mode = "Row" THEN <<header_col, header_row + 1>> ELSE <<header_col + 1, header_row>>

\* the first cell fill_with writes data to: <<first_col, first_row>>
first_data_cell(mode, overwrite, header_col, header_row, last_col, last_row) ==
    IF mode = "Row"
    THEN <<header_col, IF overwrite THEN header_row + 1 ELSE last_row + 1>>
    ELSE <<IF overwrite THEN header_col + 1 ELSE last_col + 1, header_row>>

\* fill_with putting the cursor back on the header location once the table
\* is written
fill_with_back_on_header(t, df, mode, strict, skip_null, overwrite) ==
    LET m == UnwrapOr(mode, "Row")
        hm == get_header_map(t, m)
    IN  IF hm.res # "Ok" THEN {Return(hm.res, t)}
        ELSE LET worksheet == t.spreadsheet[Unwrap(t.current_sheet_name)]
                 last == get_highest_column_and_row(worksheet)
                 header == Unwrap(ExcelCell_idx(Unwrap(t.current_cell_in_current_sheet)))
                 first == first_data_cell(m, UnwrapOr(overwrite, FALSE), header[1], header[2],
                                          last[1], last[2])
                 moved == goto_cell(t, CellTuple(first[2], first[1])).t
             IN  {Return(out.res,
                         [out.t EXCEPT !.current_cell_in_current_sheet =
                                           t.current_cell_in_current_sheet]) :
                     out \in add_df_by_column_name(moved, df, hm.map, m,
                                                   UnwrapOr(strict, FALSE),
                                                   UnwrapOr(skip_null, FALSE))}

\* fill_with, with the DataFrame already converted: the set of outcomes
fill_with(t, df, mode, strict, skip_null, overwrite) ==
    LET m == UnwrapOr(mode, "Row")
        hm == get_header_map(t, m)
    IN  IF hm.res # "Ok" THEN {Return(hm.res, t)}
        ELSE LET worksheet == t.spreadsheet[Unwrap(t.current_sheet_name)]
                 last == get_highest_column_and_row(worksheet)
                 header == Unwrap(ExcelCell_idx(Unwrap(t.current_cell_in_current_sheet)))
                 first == first_data_cell(m, UnwrapOr(overwrite, FALSE), header[1], header[2],
                                          last[1], last[2])
                 moved == goto_cell(t, CellTuple(first[2], first[1])).t
             IN  add_df_by_column_name(moved, df, hm.map, m, UnwrapOr(strict, FALSE),
                                       UnwrapOr(skip_null, FALSE))

-----------------------------------------------------------------------------
(* The files on disk: save, fill_sheet_with (fill/mod.rs) and              *)
(* copy_range_between_files (copy/mod.rs).  d maps a path to the workbook  *)
(* stored there; a call yields [res, disk].                                *)

\* reader::xlsx::read of a file the calls write: NONE when it cannot be read
read_file(d, path) == IF path \in DOMAIN d THEN Some(d[path]) ELSE NONE

\* writer::xlsx::write: the disk afterwards, NONE when the write fails, as it
\* does for a path in a directory that does not exist
write_file(d, workbook, path) ==
    IF path = "nodir/out.xlsx" THEN NONE
    ELSE Some([p \in (DOMAIN d) \cup {path} |-> IF p = path THEN workbook ELSE d[p]])

save(t, d, file_path) ==
    LET written == write_file(d, t.spreadsheet, file_path)
    IN  IF written = NONE THEN [res |-> "IOError", disk |-> d]
        ELSE [res |-> "Ok", disk |-> Unwrap(written)]

\* get_header_row(which_row, (first_row, default_row, last_row)) for a row
\* given as [row |-> "Int", int |-> n] or [row |-> "Str", str |-> text]; NONE is
\* the error
get_header_row(which_row, rows) ==
    IF which_row = NONE THEN Some(rows[2])
    ELSE LET row == Unwrap(which_row)
         IN  IF row.row = "Str"
             THEN (IF row.str = "last" THEN Some(rows[3])
                   ELSE IF row.str = "first" THEN Some(rows[1])
                   ELSE NONE)
             ELSE (IF row.int = 0 THEN NONE ELSE Some(row.int))

\* get_column_map: the loop over 1..=last_col on header_row
get_column_map(sheet, header_row) ==
    HeaderLoop(sheet, "Row", 1, header_row, 1, get_highest_column(sheet), <<>>)

delete_rows_as_of(sheet, row_index) ==
    LET first_row == row_index
        last_row == get_highest_row(sheet)
        rows_to_delete == last_row - first_row + 1
    IN  IF rows_to_delete > 0 THEN remove_row(sheet, first_row, rows_to_delete)
        ELSE sheet

\* add_polars_df_to_sheet_by_column_name: the set of [res, sheet], one for each
\* order in which column_map may be walked.  Of its two checks the first is
\* made under strict only, the second always; its loops are those of the
\* template in Row mode.
add_polars_df_to_sheet_by_column_name(df, sheet, start_row, column_map, strict, skip_null) ==
    LET df_columns == df_get_column_names(df)
        height == df_height(df)
        missing_in_df == {h \in DOMAIN column_map : h \notin Range(df_columns)}
        missing_in_sheet == {h \in Range(df_columns) : h \notin DOMAIN column_map}
    IN  IF strict /\ missing_in_df # {} THEN {[res |-> "ColumnMismatch", sheet |-> sheet]}
        ELSE IF missing_in_sheet # {} THEN {[res |-> "ColumnMismatch", sheet |-> sheet]}
        ELSE {[res |-> "Ok",
               sheet |-> delete_rows_as_of(
                             FillLoop(sheet, df, column_map, order, 1, 1, start_row,
                                      "Row", skip_null),
                             start_row + height)] :
              order \in Orders((DOMAIN column_map) \cap Range(df_columns))}

\* fill_sheet_with, with the DataFrame already converted: the set of outcomes
fill_sheet_with(d, df, excel_file_path, sheet_name, header_row, strict, skip_null, overwrite) ==
    LET workbook == read_file(d, excel_file_path)
    IN  IF workbook = NONE THEN {[res |-> "IOError", disk |-> d]}
        ELSE IF sheet_name \notin DOMAIN Unwrap(workbook)
        THEN {[res |-> "SheetNotFound", disk |-> d]}
        ELSE LET sheet == Unwrap(workbook)[sheet_name]
                 last_row == get_highest_row(sheet)
                 row == get_header_row(header_row, <<1, last_row, last_row>>)
             IN  IF row = NONE THEN {[res |-> "InvalidRow", disk |-> d]}
                 ELSE LET column_map == get_column_map(sheet, Unwrap(row))
                          start_row == IF UnwrapOr(overwrite, FALSE) THEN Unwrap(row) + 1
                                       ELSE last_row + 1
                      IN  {IF out.res # "Ok" THEN [res |-> out.res, disk |-> d]
                           ELSE LET written ==
                                        write_file(d, [Unwrap(workbook) EXCEPT
                                                           ![sheet_name] = out.sheet],
                                                   excel_file_path)
                                IN  IF written = NONE THEN [res |-> "IOError", disk |-> d]
                                    ELSE [res |-> "Ok", disk |-> Unwrap(written)] :
                           out \in add_polars_df_to_sheet_by_column_name(
                                       df, sheet, start_row, column_map,
                                       UnwrapOr(strict, FALSE), UnwrapOr(skip_null, FALSE))}

\* where copy_range_between_files puts the source cell (col, row)
between_destination(dest_col, dest_row, col, row, start_col, start_row, transpose) ==
    LET d_col == dest_col + col - start_col
        d_row == dest_row + row - start_row
    IN  IF transpose THEN <<d_row, d_col>> ELSE <<d_col, d_row>>

RECURSIVE BetweenLoop(_, _, _, _, _, _, _)
BetweenLoop(dest_sheet, source_sheet, order, k, start, dest, transpose) ==
    IF k > Len(order) THEN dest_sheet
    ELSE LET source_cell == get_cell(source_sheet, order[k])
             at == between_destination(dest[1], dest[2], order[k][1], order[k][2],
                                       start[1], start[2], transpose)
             next == IF source_cell = NONE THEN dest_sheet
                     ELSE set_cell(dest_sheet, at, Unwrap(source_cell))
         IN  BetweenLoop(next, source_sheet, order, k + 1, start, dest, transpose)

\* copy_range_between_files that creates a destination sheet it does not find
copy_range_between_files_creating(d, source_workbook, source_sheet_name, source_range, dest_file_path, dest_sheet_name, dest_start_cell, transpose) ==
    LET dest_workbook == read_file(d, dest_file_path)
    IN  IF source_workbook = NONE \/ dest_workbook = NONE
        THEN [res |-> "FileNotFound", disk |-> d]
        ELSE IF dest_sheet_name \notin DOMAIN Unwrap(dest_workbook)
        THEN [res |-> "SheetNotFound",
              disk |-> Unwrap(write_file(d, Unwrap(dest_workbook) @@ (dest_sheet_name :> <<>>),
                                         dest_file_path))]
        ELSE [res |-> "Ok", disk |-> d]

\* source_workbook: what reader::xlsx::read(source_file_path) gives, NONE when
\* it fails; source_range: <<start_row, start_col, end_row, end_col>>;
\* dest_start_cell: <<dest_row, dest_col>>
copy_range_between_files(d, source_workbook, source_sheet_name, source_range, dest_file_path, dest_sheet_name, dest_start_cell, transpose) ==
    LET start_row == source_range[1]
        start_col == source_range[2]
        end_row == source_range[3]
        end_col == source_range[4]
        dest_row == dest_start_cell[1]
        dest_col == dest_start_cell[2]
        dest_workbook == read_file(d, dest_file_path)
    IN  IF source_workbook = NONE THEN [res |-> "FileNotFound", disk |-> d]
        ELSE IF source_sheet_name \notin DOMAIN Unwrap(source_workbook)
        THEN [res |-> "SourceSheetNotFound", disk |-> d]
        ELSE IF dest_workbook = NONE THEN [res |-> "FileNotFound", disk |-> d]
        ELSE IF dest_sheet_name \notin DOMAIN Unwrap(dest_workbook)
        THEN [res |-> "SheetNotFound", disk |-> d]
        ELSE LET copied ==
                     BetweenLoop(Unwrap(dest_workbook)[dest_sheet_name],
                                 Unwrap(source_workbook)[source_sheet_name],
                                 ColMajor(start_col, start_row, end_col, end_row), 1,
                                 <<start_col, start_row>>, <<dest_col, dest_row>>,
                                 UnwrapOr(transpose, FALSE))
                 written == write_file(d, [Unwrap(dest_workbook) EXCEPT
                                              ![dest_sheet_name] = copied],
                                       dest_file_path)
             IN  IF written = NONE THEN [res |-> "IOError", disk |-> d]
                 ELSE [res |-> "Ok", disk |-> Unwrap(written)]

-----------------------------------------------------------------------------
(* Strict aggregator and transform_range_from_to: transform/aggregate.rs,  *)
(* transform/mod.rs.  The aggregator yields [res, vec].                    *)

\* the strict aggregator passing over a text that is no number
transform_aggregate_range_skipping(source_sheet, start_row, start_col, end_row, end_col, action, mode) ==
    LET lenient == aggregate_range(source_sheet, start_row, start_col, end_row, end_col,
                                   action, mode)
    IN  IF lenient = NONE THEN [res |-> "DivisionByZero", vec |-> <<>>]
        ELSE [res |-> "Ok", vec |-> Unwrap(lenient)]

\* aggregate_range of transform/aggregate.rs: the loop returns the error at
\* the first cell whose text is no number; the count is the width of a line
transform_aggregate_range(source_sheet, start_row, start_col, end_row, end_col, action, mode) ==
    LET zeros(n) == [i \in 1..n |-> Zero]
        order == RowMajor(start_row, start_col, end_row, end_col)
        not_numeric == {k \in DOMAIN order :
                           /\ get_cell(source_sheet, order[k]) # NONE
                           /\ ParseF64(get_value(source_sheet, order[k])) = NONE}
        acc == AggregateLoop(source_sheet, order, 1, start_row, start_col,
                             [sum_by_row |-> zeros(end_row - start_row + 1),
                              sum_by_col |-> zeros(end_col - start_col + 1),
                              count_not_numeric_by_row |-> zeros(end_row - start_row + 1),
                              count_not_numeric_by_col |-> zeros(end_col - start_col + 1)])
        sum == IF mode = "Row" THEN acc.sum_by_row ELSE acc.sum_by_col
        count == IF mode = "Row" THEN end_col - start_col + 1 ELSE end_row - start_row + 1
    IN  IF not_numeric # {} THEN [res |-> "NonNumeric", vec |-> <<>>]
        ELSE CASE action = "Sum" -> [res |-> "Ok", vec |-> sum]
               [] action = "Count" -> [res |-> "Ok", vec |-> [i \in DOMAIN sum |-> F64(count, 1)]]
               [] action = "Average" ->
                     IF count > 0
                     THEN [res |-> "Ok",
                           vec |-> [i \in DOMAIN sum |-> F64Div(sum[i], F64(count, 1))]]
                     ELSE [res |-> "DivisionByZero", vec |-> <<>>]

\* source_range: <<start_row, start_col, end_row, end_col>>; dest_start_cell:
\* <<dest_row, dest_col>>; the results are pasted as aggregate_range_from
\* pastes them (paste_vector_to_sheet)
transform_range_from_to(d, source_workbook, source_sheet_name, source_range, dest_file_path, dest_sheet_name, dest_start_cell, action, mode) ==
    IF source_workbook = NONE THEN [res |-> "FileNotFound", disk |-> d]
    ELSE IF source_sheet_name \notin DOMAIN Unwrap(source_workbook)
    THEN [res |-> "SourceSheetNotFound", disk |-> d]
    ELSE LET results == transform_aggregate_range(
                            Unwrap(source_workbook)[source_sheet_name], source_range[1],
                            source_range[2], source_range[3], source_range[4], action, mode)
             dest_workbook == read_file(d, dest_file_path)
         IN  IF results.res # "Ok" THEN [res |-> results.res, disk |-> d]
             ELSE IF dest_workbook = NONE THEN [res |-> "FileNotFound", disk |-> d]
             ELSE IF dest_sheet_name \notin DOMAIN Unwrap(dest_workbook)
             THEN [res |-> "SheetNotFound", disk |-> d]
             ELSE LET pasted == PasteLoop(Unwrap(dest_workbook)[dest_sheet_name],
                                          results.vec, 0,
                                          <<dest_start_cell[2], dest_start_cell[1]>>, mode)
                      written == write_file(d, [Unwrap(dest_workbook) EXCEPT
                                                   ![dest_sheet_name] = pasted],
                                            dest_file_path)
                  IN  IF written = NONE THEN [res |-> "IOError", disk |-> d]
                      ELSE [res |-> "Ok", disk |-> Unwrap(written)]

-----------------------------------------------------------------------------
(* The files and the arguments the calls are made with *)

Name == <<"N", "a", "m", "e">>
Age == <<"A", "g", "e">>
City == <<"C", "i", "t", "y">>
Id == <<"I", "d">>
Ann == <<"A", "n", "n">>
Bo == <<"B", "o">>
Cy == <<"C", "y">>
NA == <<"N", "A">>

Str(text) == [k |-> "String", str |-> text]
Int64(n) == [k |-> "Int64", int |-> n]
Null == [k |-> "Null"]

\* the template files a workbook is opened from, each with the one sheet "Sheet1"
HeaderOnly == (<<1, 1>> :> Name) @@ (<<2, 1>> :> Age)

WithRows ==
    HeaderOnly @@ (<<1, 2>> :> Ann) @@ (<<2, 2>> :> <<"3", "0">>)
               @@ (<<1, 3>> :> Bo) @@ (<<2, 3>> :> <<"4", "0">>)
               @@ (<<1, 4>> :> Cy) @@ (<<2, 4>> :> <<"5", "0">>)

Offset == (<<1, 1>> :> City) @@ (<<1, 2>> :> Id) @@ (<<2, 2>> :> Name) @@ (<<3, 2>> :> Age)

Sideways ==
    (<<1, 1>> :> Name) @@ (<<1, 2>> :> Age) @@ (<<2, 1>> :> Ann) @@ (<<2, 2>> :> <<"3", "0">>)

Workbooks == {("Sheet1" :> ws) : ws \in {HeaderOnly, WithRows, Offset, Sideways}}

SheetArgs == {"Sheet1", "Nope"}

CellArgs == {CellTuple(1, 1), CellString(<<"B", "2">>), CellTuple(1, 2)}

HeaderArgs ==
    {[h |-> "First"], [h |-> "Last"], [h |-> "Cell", cell |-> CellString(<<"B", "2">>)],
     [h |-> "Range", range |-> RangeString(<<"A", "1", ":", "B", "1">>)]}

Modes == {"Row", "Column"}

ValueArgs ==
    {[k |-> "None"], [k |-> "Int", int |-> 7], [k |-> "Boolean", bool |-> TRUE],
     [k |-> "Float", float |-> F64(5, 2)], [k |-> "String", str |-> Cy]}

People == <<[name |-> Name, values |-> <<Str(Ann), Str(Bo)>>],
            [name |-> Age, values |-> <<Int64(30), Int64(40)>>]>>

OneWithNull == <<[name |-> Name, values |-> <<Str(Cy)>>],
                 [name |-> Age, values |-> <<Null>>]>>

Towns == <<[name |-> Name, values |-> <<Str(Ann), Str(Bo)>>],
           [name |-> City, values |-> <<Str(NA), Null>>]>>

Tables == {People, OneWithNull, Towns}

\* a table of two columns the template files have no header for, but for
\* City on Offset; one of its values is a boolean
Extra == <<[name |-> City, values |-> <<[k |-> "Boolean", bool |-> TRUE]>>],
           [name |-> Id, values |-> <<Int64(7)>>]>>

\* a table whose one record repeats the names of its columns
Echo == <<[name |-> Name, values |-> <<Str(Name)>>],
          [name |-> Age, values |-> <<Str(Age)>>]>>

\* the file the ranges are read from
Num == (<<1, 1>> :> <<"1">>) @@ (<<2, 1>> :> <<"2">>)
           @@ (<<1, 2>> :> <<"3">>) @@ (<<2, 2>> :> <<"4">>)

Mixed == (<<1, 1>> :> <<"3", ".", "7">>) @@ (<<2, 1>> :> NA)
             @@ (<<2, 2>> :> <<"-", "2", ".", "5">>)

Words == (<<1, 1>> :> NA) @@ (<<2, 1>> :> <<>>) @@ (<<1, 2>> :> Bo)

SourceFile == ("Num" :> Num) @@ ("Mixed" :> Mixed) @@ ("Words" :> Words)

\* reader::xlsx::read
read(path) == IF path = "data.xlsx" THEN Some(SourceFile) ELSE NONE

RangeArgs == {RangeTuple(1, 1, 2, 2), RangeString(<<"B", "1", ":", "B", "2">>)}

SourceArgs ==
    {[path |-> "data.xlsx", sheet |-> n, range |-> r] :
        n \in DOMAIN SourceFile, r \in RangeArgs}
    \cup {[path |-> "data.xlsx", sheet |-> "Nope", range |-> RangeTuple(1, 1, 2, 2)],
          [path |-> "gone.xlsx", sheet |-> "Num", range |-> RangeTuple(1, 1, 2, 2)]}

Flag == {NONE, Some(TRUE)}

CoerceArgs == {NONE, Some("Integer"), Some("Float"), Some("String")}

Actions == {"Sum", "Count", "Average"}

\* the file the template was opened on
TemplatePath == "out.xlsx"

\* excel_file_path and sheet_name, dest_file_path and dest_sheet_name
FileArgs ==
    {[path |-> TemplatePath, sheet |-> "Sheet1"], [path |-> TemplatePath, sheet |-> "Nope"],
     [path |-> "gone.xlsx", sheet |-> "Sheet1"]}

\* source_file_path, source_sheet_name, source_range
BetweenSources ==
    {[path |-> "data.xlsx", sheet |-> n, range |-> r] :
        n \in {"Num", "Mixed"}, r \in {<<1, 1, 2, 2>>, <<2, 1, 2, 2>>}}
    \cup {[path |-> "data.xlsx", sheet |-> "Nope", range |-> <<1, 1, 2, 2>>],
          [path |-> "gone.xlsx", sheet |-> "Num", range |-> <<1, 1, 2, 2>>]}

-----------------------------------------------------------------------------
(* The template as a state machine: one action for each method *)

MaxCalls == 1

Now == Template(spreadsheet, current_sheet_name, current_cell_in_current_sheet)

NoCall ==
    [op |-> "new", sheet_name |-> NONE, cell |-> NONE, value |-> NONE, header |-> NONE,
     mode |-> NONE, df |-> NONE, strict |-> NONE, skip_null |-> NONE, overwrite |-> NONE,
     source |-> NONE, transpose |-> NONE, coerce |-> NONE, action |-> NONE,
     path |-> NONE, header_row |-> NONE, dest |-> NONE]

\* the call c was made and came back with out
Done(c, out, counted) ==
    /\ spreadsheet' = out.t.spreadsheet
    /\ current_sheet_name' = out.t.current_sheet_name
    /\ current_cell_in_current_sheet' = out.t.current_cell_in_current_sheet
    /\ call' = c
    /\ result' = out.res
    /\ pre' = Now
    /\ n_calls' = n_calls + counted
    /\ disk' = disk
    /\ pre_disk' = disk
    /\ UNCHANGED <<codec, agg>>

GotoSheet ==
    /\ \E name \in SheetArgs, cell \in {NONE} \cup {Some(c) : c \in CellArgs} :
          Done([NoCall EXCEPT !.op = "goto_sheet", !.sheet_name = Some(name), !.cell = cell],
               goto_sheet(Now, name, cell), 0)

GotoCell ==
    /\ \E cell \in CellArgs :
          Done([NoCall EXCEPT !.op = "goto_cell", !.cell = Some(cell)],
               goto_cell(Now, cell), 0)

SetHeaderLocation ==
    /\ \E header \in HeaderArgs, mode \in Modes :
          Done([NoCall EXCEPT !.op = "set_header_location", !.header = Some(header),
                              !.mode = Some(mode)],
               set_header_location(Now, header, mode), 0)

\* set_header_location called with an object that is converted first: the
\* forms of a header reference, well-formed and not
SetHeaderLocationFrom ==
    /\ \E mode \in Modes,
          obj \in {[string |-> <<"f", "i", "r", "s", "t">>], [string |-> <<"l", "a", "s", "t">>],
                   [string |-> <<"B", "2">>], [string |-> <<"A", "B">>],
                   [string |-> <<"A", "1", ":", "B", "1">>],
                   [string |-> <<"A", "1", ":", "B", "2">>],
                   CellTuple(2, 2), RangeTuple(1, 1, 1, 2), RangeTuple(1, 2, 2, 2),
                   RangeTuple(1, 1, 2, 2), [int |-> 5]} :
          LET extracted == ExcelHeader_extract(obj)
              c == [NoCall EXCEPT !.op = "set_header_location", !.header = Some(obj),
                                  !.mode = Some(mode)]
          IN  IF extracted.res # "Ok" THEN Done(c, Return(extracted.res, Now), 0)
              ELSE Done(c, set_header_location(Now, Unwrap(extracted.header), mode), 0)

SetValue ==
    /\ n_calls < MaxCalls
    /\ \E value \in ValueArgs :
          Done([NoCall EXCEPT !.op = "set_value", !.value = Some(value)],
               set_value(Now, value), 1)

WriteCell ==
    /\ n_calls < MaxCalls
    /\ \E name \in SheetArgs, cell \in CellArgs, value \in {v \in ValueArgs : v.k = "Int"} :
          Done([NoCall EXCEPT !.op = "write_cell", !.sheet_name = Some(name),
                              !.cell = Some(cell), !.value = Some(value)],
               write_cell(Now, name, cell, value), 1)

CopyRangeFrom ==
    /\ n_calls < MaxCalls
    /\ \E source \in SourceArgs, transpose \in Flag, coerce \in CoerceArgs :
          Done([NoCall EXCEPT !.op = "copy_range_from", !.source = Some(source),
                              !.transpose = transpose, !.coerce = coerce],
               copy_range_from(Now, read(source.path), source.sheet, source.range,
                               transpose, coerce), 1)

AggregateRangeFrom ==
    /\ n_calls < MaxCalls
    /\ \E source \in SourceArgs, action \in Actions, mode \in Modes :
          Done([NoCall EXCEPT !.op = "aggregate_range_from", !.source = Some(source),
                              !.action = Some(action), !.mode = Some(mode)],
               aggregate_range_from(Now, read(source.path), source.sheet, source.range,
                                    action, mode), 1)

\* a call of fill_with with one of the tables
FillWithOf(tables) ==
    \E df \in tables, mode \in {NONE, Some("Column")}, strict \in Flag,
       skip_null \in Flag, overwrite \in Flag :
       \E out \in fill_with(Now, df, mode, strict, skip_null, overwrite) :
           Done([NoCall EXCEPT !.op = "fill_with", !.df = Some(df), !.mode = mode,
                               !.strict = strict, !.skip_null = skip_null,
                               !.overwrite = overwrite],
                out, 1)

FillWith ==
    /\ n_calls < MaxCalls
    /\ FillWithOf(Tables)

\* a call that reads or writes the files came back with res and left the disk d
FileDone(c, res, d, counted) ==
    /\ call' = c
    /\ result' = res
    /\ pre' = Now
    /\ n_calls' = n_calls + counted
    /\ disk' = d
    /\ pre_disk' = disk
    /\ UNCHANGED <<spreadsheet, current_sheet_name, current_cell_in_current_sheet,
                   codec, agg>>

Save ==
    /\ call.op # "save"
    /\ \E path \in {TemplatePath, "copy.xlsx", "nodir/out.xlsx"} :
          LET out == save(Now, disk, path)
          IN  FileDone([NoCall EXCEPT !.op = "save", !.path = Some(path)],
                       out.res, out.disk, 0)

FillSheetWith ==
    /\ n_calls = 0
    /\ \E f \in FileArgs, df \in Tables, strict \in Flag, skip_null \in Flag,
          overwrite \in Flag,
          header_row \in {NONE} \cup {Some([row |-> "Int", int |-> n]) : n \in 0..2} :
          \E out \in fill_sheet_with(disk, df, f.path, f.sheet, header_row, strict,
                                     skip_null, overwrite) :
              FileDone([NoCall EXCEPT !.op = "fill_sheet_with", !.df = Some(df),
                                      !.dest = Some(f), !.header_row = header_row,
                                      !.strict = strict, !.skip_null = skip_null,
                                      !.overwrite = overwrite],
                       out.res, out.disk, 1)

CopyRangeBetweenFiles ==
    /\ n_calls = 0
    /\ \E source \in BetweenSources, f \in FileArgs, transpose \in Flag,
          cell \in {<<1, 1>>, <<3, 1>>, <<1, 3>>} :
          LET out == copy_range_between_files(disk, read(source.path), source.sheet,
                                              source.range, f.path, f.sheet, cell,
                                              transpose)
          IN  FileDone([NoCall EXCEPT !.op = "copy_range_between_files",
                                      !.source = Some(source),
                                      !.dest = Some(f),
                                      !.cell = Some(cell), !.transpose = transpose],
                       out.res, out.disk, 1)

TransformRangeFromTo ==
    /\ n_calls <= 1
    /\ \E source \in BetweenSources, f \in FileArgs, action \in Actions, mode \in Modes,
          cell \in {<<2, 1>>} :
          LET out == transform_range_from_to(disk, read(source.path), source.sheet,
                                             source.range, f.path, f.sheet, cell,
                                             action, mode)
          IN  FileDone([NoCall EXCEPT !.op = "transform_range_from_to",
                                      !.source = Some(source), !.dest = Some(f),
                                      !.cell = Some(cell), !.action = Some(action),
                                      !.mode = Some(mode)],
                       out.res, out.disk, 1)

-----------------------------------------------------------------------------
(* A run of the codec: an input, one conversion, then the inverse one *)

LetterStrings == UNION {[1..n -> Range(Upper)] : n \in 1..MaxLetters}

CodecIdle == [pc |-> "idle", kind |-> "none", input |-> <<>>, mid |-> <<>>, out |-> <<>>]

CodecInputs ==
    {[pc |-> "in", kind |-> "letters", input |-> s, mid |-> <<>>, out |-> <<>>] :
        s \in LetterStrings}
    \cup {[pc |-> "in", kind |-> "index", input |-> n, mid |-> <<>>, out |-> <<>>] :
        n \in 1..MaxIndex}
    \cup {[pc |-> "in", kind |-> "coord", input |-> p, mid |-> <<>>, out |-> <<>>] :
        p \in (1..MaxPairCol) \X (1..MaxPairRow)}

\* the value the next conversion is applied to, and where its result goes
CodecArg == IF codec.pc = "in" THEN codec.input ELSE codec.mid

CodecPut(x) ==
    /\ codec' = IF codec.pc = "in" THEN [codec EXCEPT !.mid = x, !.pc = "mid"]
                ELSE [codec EXCEPT !.out = x, !.pc = "out"]
    /\ UNCHANGED <<spreadsheet, current_sheet_name, current_cell_in_current_sheet,
                   call, result, pre, n_calls, agg, disk, pre_disk>>

ExcelColToIndex ==
    /\ \/ codec.kind = "letters" /\ codec.pc = "in"
       \/ codec.kind = "index" /\ codec.pc = "mid"
    /\ CodecPut(excel_col_to_index(CodecArg))

IndexToExcelCol ==
    /\ \/ codec.kind = "index" /\ codec.pc = "in"
       \/ codec.kind = "letters" /\ codec.pc = "mid"
    /\ CodecPut(index_to_excel_col(CodecArg))

IndexToExcel ==
    /\ codec.kind = "coord" /\ codec.pc = "in"
    /\ CodecPut(index_to_excel(CodecArg[1], CodecArg[2]))

ExcelToIndex ==
    /\ codec.kind = "coord" /\ codec.pc = "mid"
    /\ CodecPut(excel_to_index(CodecArg))

-----------------------------------------------------------------------------
(* A run of the aggregator over a source sheet *)

SrcRows == 2

SrcGrid == (1..2) \X (1..SrcRows)

\* what a cell of the source sheet may hold: nothing, a whole number that
\* tells the cells apart, a decimal, a text that is no number
SrcText(kind, c) ==
    CASE kind = "whole" -> NatToString(((c[2] - 1) * 2) + c[1])
      [] kind = "decimal" -> <<"2", ".", "5">>
      [] kind = "text" -> NA

AggSources ==
    {[c \in {x \in SrcGrid : f[x] # "absent"} |-> SrcText(f[c], c)] :
        f \in [SrcGrid -> {"absent", "whole", "decimal", "text"}]}

\* start_row, start_col, end_row, end_col
AggRanges ==
    {r \in (1..SrcRows) \X (1..2) \X (1..SrcRows) \X (1..2) : r[1] <= r[3] /\ r[2] <= r[4]}

AggIdle == [pc |-> "idle", source |-> <<>>, range |-> <<>>, action |-> "", mode |-> "",
            out |-> <<>>]

AggregateRange ==
    /\ agg.pc = "in"
    /\ \E r \in AggRanges, action \in Actions, mode \in Modes :
          agg' = [agg EXCEPT !.pc = "out", !.range = r, !.action = action, !.mode = mode,
                             !.out = aggregate_range(agg.source, r[1], r[2], r[3], r[4],
                                                     action, mode)]
    /\ UNCHANGED <<spreadsheet, current_sheet_name, current_cell_in_current_sheet,
                   call, result, pre, n_calls, codec, disk, pre_disk>>

-----------------------------------------------------------------------------
(* Specifications *)

\* ExcelTemplate::new has read the file: the workbook in memory is the one on disk
OnDisk ==
    /\ disk = (TemplatePath :> spreadsheet)
    /\ pre_disk = disk

\* SpecCursor: ExcelTemplate::new on one of the template files, then any
\* sequence of the calls that move the cursor
InitCursor ==
    /\ spreadsheet \in Workbooks
    /\ current_sheet_name = NONE
    /\ current_cell_in_current_sheet = NONE
    /\ call = NoCall
    /\ result = "Ok"
    /\ pre = Template(spreadsheet, NONE, NONE)
    /\ n_calls = 0
    /\ codec = CodecIdle
    /\ agg = AggIdle
    /\ OnDisk

NextCursor == GotoSheet \/ GotoCell \/ SetHeaderLocation

SpecCursor == InitCursor /\ [][NextCursor]_vars

\* Spec: a template opened on one of the template files and its cursor moved
\* anywhere goto_sheet and goto_cell take it, then the calls that write
Init ==
    /\ spreadsheet \in Workbooks
    /\ current_sheet_name \in {NONE} \cup {Some(n) : n \in SheetArgs}
    /\ current_cell_in_current_sheet \in {NONE} \cup {Some(c) : c \in CellArgs}
    /\ call = NoCall
    /\ result = "Ok"
    /\ pre = Now
    /\ n_calls = 0
    /\ codec = CodecIdle
    /\ agg = AggIdle
    /\ OnDisk

Next ==
    \/ SetValue
    \/ WriteCell
    \/ CopyRangeFrom
    \/ AggregateRangeFrom
    \/ FillWith

Spec == Init /\ [][Next]_vars

\* SpecSession: ExcelTemplate::new on one of the template files, any sequence
\* of the calls that move the cursor, then the next call that uses it
Navigating == call.op \in {"new", "goto_sheet", "goto_cell", "set_header_location"}

NextSession ==
    \/ Navigating /\ GotoSheet
    \/ Navigating /\ GotoCell
    \/ Navigating /\ SetHeaderLocation
    \/ Navigating /\ SetValue
    \/ Navigating /\ CopyRangeFrom
    \/ Navigating /\ AggregateRangeFrom
    \/ Navigating /\ FillWith

SpecSession == InitCursor /\ [][NextSession]_vars

\* SpecDisk: a template opened on one of the template files with the first
\* cell of Sheet1 selected; calls on the template, save, and the two functions that
\* work on the files directly
InitDisk ==
    /\ spreadsheet \in Workbooks
    /\ current_sheet_name = Some("Sheet1")
    /\ current_cell_in_current_sheet = Some(ExcelCell_default)
    /\ call = NoCall
    /\ result = "Ok"
    /\ pre = Now
    /\ n_calls = 0
    /\ codec = CodecIdle
    /\ agg = AggIdle
    /\ OnDisk

NextDisk ==
    \/ SetValue
    \/ FillWith
    \/ Save
    \/ FillSheetWith
    \/ CopyRangeBetweenFiles

SpecDisk == InitDisk /\ [][NextDisk]_vars

\* SpecFills: the template with the first cell of Sheet1 selected, a fill_with
\* call, and after a call that went through a second one with the cursor
\* where the first left it
NextFills ==
    \/ n_calls = 0 /\ FillWithOf(Tables \cup {Extra, Echo})
    \/ n_calls = 1 /\ result = "Ok" /\ FillWithOf(Tables)

SpecFills == InitDisk /\ [][NextFills]_vars

\* SpecTransform: the two aggregators side by side, the lenient one through
\* aggregate_range_from of the template, the strict one through
\* transform_range_from_to
NextTransform ==
    \/ AggregateRangeFrom
    \/ TransformRangeFromTo

SpecTransform == InitDisk /\ [][NextTransform]_vars

\* SpecHeader: ExcelTemplate::new on one of the template files, goto_sheet,
\* and set_header_location with a header reference as the caller writes it
NextHeader ==
    \/ GotoSheet
    \/ SetHeaderLocationFrom

SpecHeader == InitCursor /\ [][NextHeader]_vars

NoTemplate ==
    /\ spreadsheet = ("Sheet1" :> HeaderOnly)
    /\ current_sheet_name = NONE
    /\ current_cell_in_current_sheet = NONE
    /\ call = NoCall
    /\ result = "Ok"
    /\ pre = Template(spreadsheet, NONE, NONE)
    /\ n_calls = 0
    /\ OnDisk

InitCodec == NoTemplate /\ codec \in CodecInputs /\ agg = AggIdle

NextCodec == ExcelColToIndex \/ IndexToExcelCol \/ IndexToExcel \/ ExcelToIndex

SpecCodec == InitCodec /\ [][NextCodec]_vars

InitAggregate ==
    /\ NoTemplate
    /\ codec = CodecIdle
    /\ agg \in {[AggIdle EXCEPT !.pc = "in", !.source = src] : src \in AggSources}

NextAggregate == AggregateRange

SpecAggregate == InitAggregate /\ [][NextAggregate]_vars

-----------------------------------------------------------------------------
(* The coordinate codec *)

\* C1: converting a column index to letters and back, a letter string to an
\* index and back, and a (column, row) pair to an A1 string and back, each
\* gives the value the run started from.
CodecRoundTrip ==
    codec.pc = "out" =>
        IF codec.kind = "coord" THEN codec.out = Some(codec.input)
        ELSE codec.out = codec.input

\* the pair (28, 11) went to "AB11" and came back
CodecRoundTripSeen ==
    /\ codec.pc = "out"
    /\ codec.kind = "coord"
    /\ codec.input = <<MaxPairCol, MaxPairRow>>
    /\ Len(codec.mid) >= 4
    /\ codec.out = Some(codec.input)

-----------------------------------------------------------------------------
(* The lenient aggregator *)

\* the cells of line k of the range r = <<start_row, start_col, end_row, end_col>>
LineCells(r, mode, k) ==
    IF mode = "Row" THEN {<<c, r[1] + k - 1>> : c \in r[2]..r[4]}
    ELSE {<<r[2] + k - 1, w>> : w \in r[1]..r[3]}

LineCount(r, mode) == IF mode = "Row" THEN r[3] - r[1] + 1 ELSE r[4] - r[2] + 1

RangeCells(r) == {<<c, w>> : c \in r[2]..r[4], w \in r[1]..r[3]}

\* the sum of the numbers held by the cells of a set
RECURSIVE SumOf(_, _)
SumOf(source, cells) ==
    IF cells = {} THEN Zero
    ELSE LET c == CHOOSE x \in cells : TRUE
         IN  F64Add(Unwrap(ParseF64(source[c])), SumOf(source, cells \ {c}))

Held(source, cells) == cells \cap DOMAIN source

NoNonNumeric(source, r) ==
    \A c \in Held(source, RangeCells(r)) : ParseF64(source[c]) # NONE

\* C2: over a range none of whose cells holds a text that is no number, the
\* aggregator gives one element for each row (Row) or column (Column) of the
\* range: under Sum the sum of the line's cells, under Count the number of
\* its cells, under Average the one divided by the other; [[1,2],[3,4]] sums
\* to [3,7] by row and to [4,6] by column.
AggregateByLine ==
    (agg.pc = "out" /\ NoNonNumeric(agg.source, agg.range)) =>
        LET lines == 1..LineCount(agg.range, agg.mode)
            held(k) == Held(agg.source, LineCells(agg.range, agg.mode, k))
            sum == [k \in lines |-> SumOf(agg.source, held(k))]
            count == [k \in lines |-> F64(Cardinality(held(k)), 1)]
        IN  /\ agg.action = "Sum" => agg.out = Some(sum)
            /\ agg.action = "Count" => agg.out = Some(count)
            /\ (agg.action = "Average" /\ Held(agg.source, RangeCells(agg.range)) # {}) =>
                   agg.out = Some([k \in lines |-> F64Div(sum[k], count[k])])
            /\ (agg.action = "Sum" /\ agg.range = <<1, 1, 2, 2>>
                   /\ \A c \in (1..2) \X (1..2) :
                          c \in DOMAIN agg.source /\ agg.source[c] = Num[c]) =>
                   agg.out = Some(IF agg.mode = "Row" THEN <<F64(3, 1), F64(7, 1)>>
                                  ELSE <<F64(4, 1), F64(6, 1)>>)

\* [[1,2],[3,4]] summed by column
AggregateByLineSeen ==
    /\ agg.pc = "out"
    /\ agg.range = <<1, 1, 2, 2>>
    /\ \A c \in (1..2) \X (1..2) : c \in DOMAIN agg.source /\ agg.source[c] = Num[c]
    /\ agg.action = "Sum"
    /\ agg.mode = "Column"
    /\ agg.out = Some(<<F64(4, 1), F64(6, 1)>>)

-----------------------------------------------------------------------------
(* The calls of the template that write *)

\* the call was made with a sheet of the workbook and a cell selected
Selected ==
    /\ pre.current_sheet_name # NONE
    /\ HasSheet(pre, Unwrap(pre.current_sheet_name))
    /\ pre.current_cell_in_current_sheet # NONE

\* the selected sheet before and after the call
Before == pre.spreadsheet[Unwrap(pre.current_sheet_name)]

After == spreadsheet[Unwrap(pre.current_sheet_name)]

\* the cell that was selected when the call was made: <<col, row>>
Anchor == Unwrap(ExcelCell_idx(Unwrap(pre.current_cell_in_current_sheet)))

\* the cells the call created, removed or gave another text
Written ==
    LET before == Before
        after == After
    IN  {c \in (DOMAIN before) \cup (DOMAIN after) : get_cell(before, c) # get_cell(after, c)}

\* the source of a copy or an aggregation was found
SourceFound ==
    /\ read(Unwrap(call.source).path) # NONE
    /\ Unwrap(call.source).sheet \in DOMAIN Unwrap(read(Unwrap(call.source).path))

SourceSheet == Unwrap(read(Unwrap(call.source).path))[Unwrap(call.source).sheet]

\* the corners of the source range: <<<<col1, row1>>, <<col2, row2>>>>
SourceCorners == Unwrap(ExcelRange_idx(Unwrap(call.source).range))

\* the cells of the source range that exist
SourceCells ==
    LET corners == SourceCorners
    IN  {c \in DOMAIN SourceSheet :
            /\ corners[1][1] <= c[1] /\ c[1] <= corners[2][1]
            /\ corners[1][2] <= c[2] /\ c[2] <= corners[2][2]}

\* C3: aggregate_range_from with Average over a range in which no cell holds
\* a number fails with the division-by-zero error and leaves every cell of
\* the workbook as it was.
AverageOfNoNumbers ==
    (/\ call.op = "aggregate_range_from"
     /\ call.action = Some("Average")
     /\ Selected
     /\ SourceFound
     /\ \A c \in SourceCells : ParseF64(SourceSheet[c]) = NONE) =>
        /\ result = "DivisionByZero"
        /\ spreadsheet = pre.spreadsheet

\* the average of the texts of the sheet Words was asked for
AverageOfNoNumbersSeen ==
    /\ call.op = "aggregate_range_from"
    /\ call.action = Some("Average")
    /\ Selected
    /\ SourceFound
    /\ Unwrap(call.source).sheet = "Words"
    /\ SourceCorners = <<<<1, 1>>, <<2, 2>>>>
    /\ result = "DivisionByZero"

\* the columns of the header line, from the header location on, that hold a name
HeaderCols(name) ==
    LET anchor == Anchor
        before == Before
    IN  {c \in anchor[1]..get_highest_column(before) : get_value(before, <<c, anchor[2]>>) = name}

\* C4: fill_with by rows without overwrite, on a sheet whose highest row is R
\* and with a table of H rows, changes cells of the rows R+1..R+H only, and
\* value i of the column named n stands at row R+1+i of the column whose
\* header is n; the table Name/Age = Ann/30, Bo/40 under the headers Name,
\* Age of row 1 fills rows 2 and 3.
AppendBelowLastRow ==
    (/\ call.op = "fill_with"
     /\ UnwrapOr(call.mode, "Row") = "Row"
     /\ ~UnwrapOr(call.overwrite, FALSE)
     /\ result = "Ok") =>
        LET df == Unwrap(call.df)
            R == get_highest_row(Before)
            H == df_height(df)
            after == After
            cols == [j \in DOMAIN df |-> HeaderCols(df[j].name)]
        IN  /\ \A c \in Written : R + 1 <= c[2] /\ c[2] <= R + H
            /\ \A j \in DOMAIN df : \A i \in 0..(H - 1) :
                   (/\ cols[j] # {}
                    /\ (df[j].values[i + 1].k # "Null" \/ ~UnwrapOr(call.skip_null, FALSE))) =>
                       get_cell(after, <<Max(cols[j]), R + 1 + i>>)
                           = Some(convert_anyvalue_to_string(df[j].values[i + 1]))
            /\ (Before = HeaderOnly /\ Anchor = <<1, 1>> /\ df = People) =>
                   after = HeaderOnly @@ (<<1, 2>> :> Ann) @@ (<<2, 2>> :> <<"3", "0">>)
                                      @@ (<<1, 3>> :> Bo) @@ (<<2, 3>> :> <<"4", "0">>)

\* two rows were added below the three rows of data of WithRows
AppendBelowLastRowSeen ==
    /\ call.op = "fill_with"
    /\ UnwrapOr(call.mode, "Row") = "Row"
    /\ ~UnwrapOr(call.overwrite, FALSE)
    /\ result = "Ok"
    /\ Before = WithRows
    /\ Anchor = <<1, 1>>
    /\ call.df = Some(People)
    /\ Written = {<<1, 5>>, <<2, 5>>, <<1, 6>>, <<2, 6>>}
    /\ After[<<2, 6>>] = <<"4", "0">>

\* the names read on the header line, from the header location on
HeaderNames ==
    LET anchor == Anchor
        before == Before
    IN  IF UnwrapOr(call.mode, "Row") = "Row"
        THEN {get_value(before, <<c, anchor[2]>>) : c \in anchor[1]..get_highest_column(before)}
        ELSE {get_value(before, <<anchor[1], r>>) : r \in anchor[2]..get_highest_row(before)}

\* C5: fill_with with overwrite and strict, when the names of the table are
\* not the names of the header line, fails with the column mismatch error
\* and no cell is written.
StrictMismatchFails ==
    (/\ call.op = "fill_with"
     /\ UnwrapOr(call.overwrite, FALSE)
     /\ UnwrapOr(call.strict, FALSE)
     /\ Selected
     /\ Range(df_get_column_names(Unwrap(call.df))) # HeaderNames) =>
        /\ result = "ColumnMismatch"
        /\ spreadsheet = pre.spreadsheet

\* the table has a column Name the header line, read from B1, does not have
StrictMismatchFailsSeen ==
    /\ call.op = "fill_with"
    /\ UnwrapOr(call.overwrite, FALSE)
    /\ UnwrapOr(call.strict, FALSE)
    /\ Selected
    /\ HeaderNames = {Age}
    /\ call.df = Some(People)
    /\ result = "ColumnMismatch"
    /\ spreadsheet = pre.spreadsheet

\* where the claims put each source cell c = <<col, row>> of a copy
CopyTarget ==
    LET start == SourceCorners[1]
        anchor == Anchor
        transposed == UnwrapOr(call.transpose, FALSE)
    IN  [c \in SourceCells |->
            LET dr == c[2] - start[2]
                dc == c[1] - start[1]
            IN  IF transposed THEN <<anchor[1] + dr, anchor[2] + dc>>
                ELSE <<anchor[1] + dc, anchor[2] + dr>>]

\* C6: copy_range_from with the anchor (anchorRow, anchorCol) puts the source
\* cell at row r and column c of a range starting at (startRow, startCol) at
\* row anchorRow + (r - startRow), column anchorCol + (c - startCol), and
\* with transpose at row anchorRow + (c - startCol), column
\* anchorCol + (r - startRow); it writes nowhere else.
CopyPlacement ==
    (call.op = "copy_range_from" /\ result = "Ok") =>
        LET target == CopyTarget
            source == SourceSheet
            after == After
        IN  /\ \A c \in DOMAIN target :
                   get_cell(after, target[c])
                       = Some(coerce_value(source[c], UnwrapOr(call.coerce, "None")))
            /\ Written \subseteq {target[c] : c \in DOMAIN target}

\* the 2 of B1 of the sheet Num went, transposed, from the anchor B1 to B2
CopyPlacementSeen ==
    /\ call.op = "copy_range_from"
    /\ result = "Ok"
    /\ call.transpose = Some(TRUE)
    /\ Unwrap(call.source).sheet = "Num"
    /\ SourceCorners = <<<<1, 1>>, <<2, 2>>>>
    /\ Anchor = <<2, 1>>
    /\ After[<<2, 2>>] = <<"2">>
    /\ After[<<3, 1>>] = <<"3">>

\* the whole number next to v on the side of zero
TowardZero(v) ==
    LET m == Max({k \in 0..Abs(v.n) : k * v.d <= Abs(v.n)})
    IN  IF v.n < 0 THEN 0 - m ELSE m

\* C7: under the coercion Integer a source text that is a number is copied
\* as that number cut toward zero, in decimal: "3.7" as "3".
IntegerCutsTowardZero ==
    (call.op = "copy_range_from" /\ result = "Ok" /\ call.coerce = Some("Integer")) =>
        LET target == CopyTarget
            source == SourceSheet
            after == After
        IN  \A c \in DOMAIN target :
                /\ ParseF64(source[c]) # NONE =>
                       get_cell(after, target[c])
                           = Some(IntToString(TowardZero(Unwrap(ParseF64(source[c])))))
                /\ source[c] = <<"3", ".", "7">> => after[target[c]] = <<"3">>
                /\ source[c] = <<"-", "2", ".", "5">> => after[target[c]] = <<"-", "2">>

\* "3.7" and "-2.5" of the sheet Mixed were copied as "3" and "-2"
IntegerCutsTowardZeroSeen ==
    /\ call.op = "copy_range_from"
    /\ result = "Ok"
    /\ call.coerce = Some("Integer")
    /\ Unwrap(call.source).sheet = "Mixed"
    /\ SourceCorners = <<<<1, 1>>, <<2, 2>>>>
    /\ call.transpose = NONE
    /\ Anchor = <<1, 1>>
    /\ After[<<1, 1>>] = <<"3">>
    /\ After[<<2, 2>>] = <<"-", "2">>

\* C8: under the coercions Integer and Float a source text that is no number
\* is copied as the empty text and the copy goes on: every source cell of the
\* range is written and the call succeeds; under None and String every
\* source text is copied as it is.
CoercionFailureIsEmpty ==
    (call.op = "copy_range_from" /\ Selected /\ SourceFound) =>
        /\ result = "Ok"
        /\ LET target == CopyTarget
               source == SourceSheet
               after == After
               coerce == UnwrapOr(call.coerce, "None")
           IN  \A c \in DOMAIN target :
                   LET text == source[c]
                       copied == get_cell(after, target[c])
                   IN  /\ copied # NONE
                       /\ coerce \in {"None", "String"} => copied = Some(text)
                       /\ (coerce \in {"Integer", "Float"} /\ ParseF64(text) = NONE) =>
                              copied = Some(<<>>)
                       /\ (coerce \in {"Integer", "Float"} /\ ParseF64(text) # NONE) =>
                              Unwrap(copied) # <<>>

\* the "NA" of B1 of the sheet Mixed was copied as the empty text under Float,
\* next to the numbers of A1 and B2
CoercionFailureIsEmptySeen ==
    /\ call.op = "copy_range_from"
    /\ result = "Ok"
    /\ call.coerce = Some("Float")
    /\ Unwrap(call.source).sheet = "Mixed"
    /\ SourceCorners = <<<<1, 1>>, <<2, 2>>>>
    /\ call.transpose = NONE
    /\ Anchor = <<1, 1>>
    /\ After[<<2, 1>>] = <<>>
    /\ After[<<1, 1>>] = <<"3", ".", "7">>
    /\ After[<<2, 2>>] = <<"-", "2", ".", "5">>

\* C9: set_value, copy_range_from, aggregate_range_from and fill_with fail
\* with the no-sheet error when no sheet is selected, and with the no-cell
\* error when a sheet of the workbook is selected and no cell is; in both
\* cases every cell of the workbook is as it was.
UnselectedFails ==
    call.op \in {"set_value", "copy_range_from", "aggregate_range_from", "fill_with"} =>
        /\ pre.current_sheet_name = NONE =>
               result = "NoSheetSelected" /\ spreadsheet = pre.spreadsheet
        /\ (/\ pre.current_sheet_name # NONE
            /\ HasSheet(pre, Unwrap(pre.current_sheet_name))
            /\ pre.current_cell_in_current_sheet = NONE) =>
               result = "NoCellSelected" /\ spreadsheet = pre.spreadsheet

\* set_value was called with a cell selected and no sheet
UnselectedFailsSeen ==
    /\ call.op = "set_value"
    /\ pre.current_sheet_name = NONE
    /\ pre.current_cell_in_current_sheet # NONE
    /\ result = "NoSheetSelected"
    /\ spreadsheet = pre.spreadsheet

-----------------------------------------------------------------------------
(* The cursor *)

CellWithoutSheet ==
    current_sheet_name = NONE /\ current_cell_in_current_sheet # NONE

\* C10 as the specification states it: the cursor has three states, no sheet
\* and no cell, a sheet and no cell, a sheet and a cell; a selected cell
\* implies a selected sheet.
CursorThreeStates ==
    current_cell_in_current_sheet # NONE => current_sheet_name # NONE

\* C10: the cursor has a fourth state, a cell selected and no sheet.  It is
\* entered by goto_cell alone, which selects the cell without looking at the
\* sheet; no other call takes the cursor from one of the three states to it.
CursorFourthStateByGotoCell ==
    CellWithoutSheet =>
        \/ call.op = "goto_cell"
        \/ pre.current_sheet_name = NONE /\ pre.current_cell_in_current_sheet # NONE

\* goto_cell was called on the new template
CursorFourthStateByGotoCellSeen ==
    /\ CellWithoutSheet
    /\ call.op = "goto_cell"
    /\ pre.current_sheet_name = NONE
    /\ pre.current_cell_in_current_sheet = NONE

-----------------------------------------------------------------------------
(* What the calls leave of the cursor *)

CursorKept ==
    /\ current_sheet_name = pre.current_sheet_name
    /\ current_cell_in_current_sheet = pre.current_cell_in_current_sheet

\* C11: set_value, write_cell, copy_range_from and aggregate_range_from only
\* read the cursor: whether the call succeeds or fails, the selected sheet
\* and the selected cell are the same after it as before it.
WritesKeepCursor ==
    call.op \in {"set_value", "write_cell", "copy_range_from", "aggregate_range_from"}
        => CursorKept

\* a write_cell to a cell other than the selected one went through
WritesKeepCursorSeen ==
    /\ call.op = "write_cell"
    /\ result = "Ok"
    /\ spreadsheet # pre.spreadsheet
    /\ pre.current_cell_in_current_sheet # NONE
    /\ call.cell # pre.current_cell_in_current_sheet
    /\ CursorKept

\* the first data line of a fill_with call, as <<col, row>>: the line after the
\* header line when overwriting, the line after the sheet's extent when not
FirstDataLine ==
    LET h == Anchor
        extent == get_highest_column_and_row(Before)
        over == UnwrapOr(call.overwrite, FALSE)
    IN  IF UnwrapOr(call.mode, "Row") = "Row"
        THEN <<h[1], IF over THEN h[2] + 1 ELSE extent[2] + 1>>
        ELSE <<IF over THEN h[1] + 1 ELSE extent[1] + 1, h[2]>>

\* the call failed before the header line was read
FailedBeforeHeaders == result \in {"NoSheetSelected", "SheetNotFound", "NoCellSelected"}

\* C12 as stated: fill_with never mutates the cursor, the selected sheet and
\* the selected cell are the same after a fill_with call as before it.
FillKeepsCursor == call.op = "fill_with" => CursorKept

\* C12 amended: fill_with never changes the selected sheet; it leaves the
\* selected cell alone when it fails before reading the header line, and in
\* every other case, a later failure included, the selected cell has become
\* the cell of the first data line.
FillMovesCellOnly ==
    call.op = "fill_with" =>
        /\ current_sheet_name = pre.current_sheet_name
        /\ IF FailedBeforeHeaders
           THEN current_cell_in_current_sheet = pre.current_cell_in_current_sheet
           ELSE LET first == FirstDataLine
                IN  current_cell_in_current_sheet = Some(CellTuple(first[2], first[1]))

\* a strict fill_with that failed on the columns has moved the cell all the same
FillMovesCellOnlySeen ==
    /\ call.op = "fill_with"
    /\ result = "ColumnMismatch"
    /\ current_cell_in_current_sheet # pre.current_cell_in_current_sheet
    /\ spreadsheet = pre.spreadsheet

-----------------------------------------------------------------------------
(* The sheet name is looked up late *)

\* the sheet selected before the call is not in the workbook
AbsentSheetSelected ==
    /\ pre.current_sheet_name # NONE
    /\ Unwrap(pre.current_sheet_name) \notin DOMAIN pre.spreadsheet

SheetUsers ==
    {"set_value", "copy_range_from", "aggregate_range_from", "fill_with",
     "set_header_location"}

\* goto_sheet succeeds and selects the name, in the workbook or not
GotoSheetSelects ==
    call.op = "goto_sheet" => (result = "Ok" /\ current_sheet_name = call.sheet_name)

\* C13 as stated: goto_sheet always succeeds and selects the name it is given;
\* with a selected sheet that the workbook does not hold, each of set_value,
\* copy_range_from, aggregate_range_from, fill_with and set_header_location
\* fails with SheetNotFound and changes no cell.
LateSheetNotFound ==
    /\ GotoSheetSelects
    /\ (call.op \in SheetUsers /\ AbsentSheetSelected) =>
           (result = "SheetNotFound" /\ spreadsheet = pre.spreadsheet)

\* C13 amended: the same, except that set_value with no cell selected fails
\* with NoCellSelected, before the sheet is looked up.
LateSheetFailure ==
    /\ GotoSheetSelects
    /\ (call.op \in SheetUsers /\ AbsentSheetSelected) =>
           /\ spreadsheet = pre.spreadsheet
           /\ result = IF call.op = "set_value" /\ pre.current_cell_in_current_sheet = NONE
                       THEN "NoCellSelected"
                       ELSE "SheetNotFound"

\* goto_sheet took a name the workbook does not hold, and the fill_with that
\* followed found the sheet missing
LateSheetFailureSeen ==
    /\ call.op = "fill_with"
    /\ AbsentSheetSelected
    /\ pre.current_cell_in_current_sheet # NONE
    /\ result = "SheetNotFound"
    /\ spreadsheet = pre.spreadsheet

-----------------------------------------------------------------------------
(* The functions that work on the files directly *)

\* the template a fresh ExcelTemplate::new gives on the destination file as
\* it was before the call, with the sheet and the cell selected
OnDestination(sheet_name, cell) ==
    Template(pre_disk[Unwrap(call.dest).path], Some(sheet_name), Some(cell))

\* C14: copy_range_between_files places the cells as copy_range_from without
\* coercion does: with the same source range, anchor (anchorRow, anchorCol)
\* and transpose flag, a successful call leaves the destination workbook as
\* copy_range_from leaves a template opened on it, for every anchor.
BetweenFilesPlacesAsTemplate ==
    (call.op = "copy_range_between_files" /\ result = "Ok") =>
        LET source == Unwrap(call.source)
            r == source.range
            anchor == Unwrap(call.cell)
            out == copy_range_from(
                       OnDestination(Unwrap(call.dest).sheet, CellTuple(anchor[1], anchor[2])),
                       read(source.path), source.sheet, RangeTuple(r[1], r[2], r[3], r[4]),
                       call.transpose, NONE)
        IN  /\ out.res = "Ok"
            /\ disk[Unwrap(call.dest).path] = out.t.spreadsheet

\* the header row a fill_sheet_with call reads: the one it is given, the
\* sheet's last row when it is given none
HeaderRowUsed ==
    LET dest == Unwrap(call.dest)
    IN  IF call.header_row # NONE THEN Unwrap(call.header_row).int
        ELSE get_highest_row(pre_disk[dest.path][dest.sheet])

\* what fill_with gives in Row mode on a template opened on the same file,
\* with the same sheet selected, the header location on the same row, and
\* the same table and flags
TemplateFill ==
    LET dest == Unwrap(call.dest)
        header == IF dest.sheet \in DOMAIN pre_disk[dest.path]
                  THEN CellTuple(HeaderRowUsed, 1)
                  ELSE ExcelCell_default
    IN  fill_with(OnDestination(dest.sheet, header), Unwrap(call.df), Some("Row"),
                  call.strict, call.skip_null, call.overwrite)

\* the call was given a file that can be read and a header row that exists
FillSheetComparable ==
    /\ call.op = "fill_sheet_with"
    /\ Unwrap(call.dest).path \in DOMAIN pre_disk
    /\ call.header_row # Some([row |-> "Int", int |-> 0])

\* C15: fill_sheet_with does what fill_with does in Row mode: on the same
\* sheet contents, header row, table and flags the two both fail or both
\* succeed, and on success they leave the same cells; a lenient call with a
\* table column that has no header in the sheet is no exception.
FillSheetAsTemplate ==
    FillSheetComparable =>
        LET outs == TemplateFill
        IN  /\ \A o \in outs : (o.res = "Ok") <=> (result = "Ok")
            /\ result = "Ok" =>
                   \E o \in outs : o.t.spreadsheet = disk[Unwrap(call.dest).path]

-----------------------------------------------------------------------------
(* What reaches the disk *)

FileFunctions == {"fill_sheet_with", "copy_range_between_files"}

\* C16: of the calls on the template only save changes a file on disk, and a
\* fill_sheet_with or copy_range_between_files call that fails, at whatever
\* step, leaves the files as they were.
DiskWrittenLast ==
    /\ call.op \notin FileFunctions \cup {"save"} => disk = pre_disk
    /\ (call.op \in FileFunctions /\ result # "Ok") => disk = pre_disk

\* a fill_with went through in memory and the file still holds what it held;
\* the workbook in memory and the one on disk now differ
DiskWrittenLastSeen ==
    /\ call.op = "fill_with"
    /\ result = "Ok"
    /\ spreadsheet # pre.spreadsheet
    /\ disk = pre_disk
    /\ disk[TemplatePath] # spreadsheet

-----------------------------------------------------------------------------
(* Where fill_with writes *)

FillMode == UnwrapOr(call.mode, "Row")

\* the text fill_with writes for value i of every column of the table that
\* has one to write (a null under skip_null is not written)
RecordTexts(i) ==
    LET df == Unwrap(call.df)
    IN  {convert_anyvalue_to_string(df[j].values[i]) :
            j \in {k \in DOMAIN df :
                      ~(UnwrapOr(call.skip_null, FALSE) /\ df[k].values[i].k = "Null")}}

HeaderLineCell(i) == IF FillMode = "Row" THEN <<i, Anchor[2]>> ELSE <<Anchor[1], i>>

\* the index of the header location along the header line, and the last one
HeaderLineFirst == IF FillMode = "Row" THEN Anchor[1] ELSE Anchor[2]

HeaderLineLast ==
    IF FillMode = "Row" THEN get_highest_column(Before) ELSE get_highest_row(Before)

\* the indices before the header location at which the header line holds name
IndicesBefore(name) ==
    {i \in 1..(HeaderLineFirst - 1) : get_value(Before, HeaderLineCell(i)) = name}

\* name stands on the header line before the header location and nowhere
\* from the header location on
OnlyBefore(name) ==
    /\ IndicesBefore(name) # {}
    /\ \A i \in HeaderLineFirst..HeaderLineLast :
           get_value(Before, HeaderLineCell(i)) # name

\* the cell of the first data line at index i
FirstLineCell(i) ==
    IF FillMode = "Row" THEN <<i, FirstDataLine[2]>> ELSE <<FirstDataLine[1], i>>

\* the columns of the table whose first value is written
FirstWritten ==
    LET df == Unwrap(call.df)
    IN  {j \in DOMAIN df :
            ~(UnwrapOr(call.skip_null, FALSE) /\ df[j].values[1].k = "Null")}

\* C18 as stated: the header line is read from index 1, so a header that
\* stands before the header location is in the map and its index receives
\* the data of the table column of that name.
HeadersReadFromIndexOne ==
    (call.op = "fill_with" /\ result = "Ok") =>
        LET df == Unwrap(call.df)
            after == After
        IN  \A j \in FirstWritten :
                OnlyBefore(df[j].name) =>
                    \E i \in IndicesBefore(df[j].name) :
                        get_cell(after, FirstLineCell(i)) =
                            Some(convert_anyvalue_to_string(df[j].values[1]))

\* C18 amended: the header line is read from the header location on.  A
\* table column whose name stands only before the header location has no
\* header: a strict call fails on it with ColumnMismatch, and a lenient call
\* in Row mode succeeds and writes nothing under that name.
HeadersReadFromLocation ==
    (call.op = "fill_with" /\ result \in {"Ok", "ColumnMismatch"}) =>
        LET df == Unwrap(call.df)
            before == Before
            after == After
            height == df_height(df)
        IN  \A j \in DOMAIN df :
                OnlyBefore(df[j].name) =>
                    IF UnwrapOr(call.strict, FALSE) THEN result = "ColumnMismatch"
                    ELSE /\ result = "Ok"
                         /\ FillMode = "Row" =>
                                \A i \in IndicesBefore(df[j].name), k \in 0..(height - 1) :
                                    LET c == <<i, FirstDataLine[2] + k>>
                                    IN  get_cell(after, c) = get_cell(before, c)

\* a lenient fill from the header location B1, with the header Name at A1:
\* the call went through and column A has nothing on the first data line
HeadersReadFromLocationSeen ==
    /\ call.op = "fill_with"
    /\ result = "Ok"
    /\ FillMode = "Row"
    /\ Anchor = <<2, 1>>
    /\ Before = HeaderOnly
    /\ Unwrap(call.df) = People
    /\ OnlyBefore(Name)
    /\ get_cell(After, <<1, 2>>) = NONE

\* the rows of the header column, from the header location down, that hold name
HeaderRows(name) ==
    {r \in Anchor[2]..get_highest_row(Before) : get_value(Before, <<Anchor[1], r>>) = name}

\* C19: in Column mode fill_with maps a header name to the row on which it
\* stands in the header column and writes value i of the table column of that
\* name at (anchorCol + i, that row), so that table columns with headers on
\* different rows are written on different rows.
ColumnModeWritesOnHeaderRows ==
    (call.op = "fill_with" /\ result = "Ok" /\ FillMode = "Column") =>
        LET df == Unwrap(call.df)
            after == After
            first == FirstDataLine
        IN  \A j \in DOMAIN df :
                LET rows == HeaderRows(df[j].name)
                IN  rows # {} =>
                        LET row == CHOOSE r \in rows : \A x \in rows : x <= r
                        IN  \A i \in 0..(df_height(df) - 1) :
                                LET value == df[j].values[i + 1]
                                IN  ~(UnwrapOr(call.skip_null, FALSE) /\ value.k = "Null") =>
                                        get_cell(after, <<first[1] + i, row>>) =
                                            Some(convert_anyvalue_to_string(value))

\* C20: after a successful fill_with with first data line a and a table of
\* height H nothing remains beyond line a + H - 1: in Row mode the highest
\* row of the sheet is at most a + H - 1, in Column mode its highest column.
NothingBeyondLastRecord ==
    (call.op = "fill_with" /\ result = "Ok") =>
        LET first == FirstDataLine
            height == df_height(Unwrap(call.df))
        IN  IF FillMode = "Row"
            THEN get_highest_row(After) <= first[2] + height - 1
            ELSE get_highest_column(After) <= first[1] + height - 1

\* an overwriting fill of one record over three rows of data: rows 3 and 4
\* are gone
NothingBeyondLastRecordSeen ==
    /\ call.op = "fill_with"
    /\ result = "Ok"
    /\ FillMode = "Row"
    /\ call.overwrite = Some(TRUE)
    /\ df_height(Unwrap(call.df)) = 1
    /\ get_highest_row(Before) = 4
    /\ get_highest_row(After) = 2

-----------------------------------------------------------------------------
(* What fill_with writes for the values of the table *)

\* the cell the value i (from 0) of the table column named name goes to when
\* the header line holds name: under its header in Row mode, beside it in
\* Column mode
TargetCell(name, i) ==
    IF FillMode = "Row" THEN <<Max(HeaderCols(name)), FirstDataLine[2] + i>>
    ELSE <<FirstDataLine[1] + i, Max(HeaderRows(name))>>

\* the header line holds name from the header location on
HasHeader(name) == IF FillMode = "Row" THEN HeaderCols(name) # {} ELSE HeaderRows(name) # {}

\* C21: in the fill by header name a null value of the table, under
\* skip_null, is not written and its target cell keeps the content it had;
\* without skip_null it is written as the empty text in place of that content.
NullSkippedOrBlank ==
    (call.op = "fill_with" /\ result = "Ok") =>
        LET df == Unwrap(call.df)
            before == Before
            after == After
        IN  \A j \in DOMAIN df : \A i \in 0..(df_height(df) - 1) :
                (df[j].values[i + 1].k = "Null" /\ HasHeader(df[j].name)) =>
                    LET c == TargetCell(df[j].name, i)
                    IN  IF UnwrapOr(call.skip_null, FALSE)
                        THEN get_cell(after, c) = get_cell(before, c)
                        ELSE get_cell(after, c) = Some(<<>>)

\* C22: a boolean is written to a worksheet as the text TRUE or FALSE: for
\* fill_with in Row mode, the cell under the header of a table column holds
\* the uppercase text of every boolean value of that column.
BooleansUppercase ==
    (call.op = "fill_with" /\ result = "Ok" /\ FillMode = "Row") =>
        LET df == Unwrap(call.df)
            after == After
        IN  \A j \in DOMAIN df : \A i \in 0..(df_height(df) - 1) :
                (df[j].values[i + 1].k = "Boolean" /\ HasHeader(df[j].name)) =>
                    get_cell(after, TargetCell(df[j].name, i)) =
                        Some(IF df[j].values[i + 1].bool THEN TRUE_text ELSE FALSE_text)

\* C23: a lenient fill_with in Row mode gives every table column a worksheet
\* column of its own: the column of its header, or for a table column without
\* a header a column beyond the sheet's highest one, different for each, so
\* that all values written are found after the call, each table column's in
\* its own worksheet column.
AppendedColumnsApart ==
    (/\ call.op = "fill_with"
     /\ result = "Ok"
     /\ FillMode = "Row"
     /\ ~UnwrapOr(call.strict, FALSE)) =>
        LET df == Unwrap(call.df)
            before == Before
            after == After
            first == FirstDataLine
            highest == get_highest_column(before)
        IN  \E f \in [DOMAIN df -> 1..(highest + Len(df))] :
                /\ \A j, k \in DOMAIN df : f[j] = f[k] => j = k
                /\ \A j \in DOMAIN df :
                       /\ IF HasHeader(df[j].name) THEN f[j] \in HeaderCols(df[j].name)
                          ELSE f[j] > highest
                       /\ \A i \in 0..(df_height(df) - 1) :
                              ~(UnwrapOr(call.skip_null, FALSE)
                                    /\ df[j].values[i + 1].k = "Null") =>
                                  get_cell(after, <<f[j], first[2] + i>>) =
                                      Some(convert_anyvalue_to_string(df[j].values[i + 1]))

-----------------------------------------------------------------------------
(* Where aggregate_range_from writes *)

\* the result of the aggregator for the source range of the call
Aggregated ==
    LET corners == SourceCorners
    IN  aggregate_range(SourceSheet, corners[1][2], corners[1][1], corners[2][2],
                        corners[2][1], Unwrap(call.action), Unwrap(call.mode))

\* the cell of element k (from 0) of the result
PasteCell(k) ==
    IF Unwrap(call.mode) = "Row" THEN <<Anchor[1], Anchor[2] + k>>
    ELSE <<Anchor[1] + k, Anchor[2]>>

\* C24: a successful aggregate_range_from with the current cell (c, r) writes
\* element k of the result at (c, r + k) in Row mode, one element for each row
\* of the source range, and at (c + k, r) in Column mode, one for each column;
\* no other cell of the sheet is changed.
ResultsFromCurrentCell ==
    (call.op = "aggregate_range_from" /\ result = "Ok") =>
        LET results == Unwrap(Aggregated)
            corners == SourceCorners
            after == After
            cells == {PasteCell(k) : k \in 0..(Len(results) - 1)}
        IN  /\ Len(results) = IF Unwrap(call.mode) = "Row"
                              THEN corners[2][2] - corners[1][2] + 1
                              ELSE corners[2][1] - corners[1][1] + 1
            /\ \A k \in 0..(Len(results) - 1) :
                   get_cell(after, PasteCell(k)) = Some(F64ToString(results[k + 1]))
            /\ Written \subseteq cells
            /\ spreadsheet = [pre.spreadsheet EXCEPT ![Unwrap(pre.current_sheet_name)] = after]

\* the sums 3 and 7 of the two rows of Num went to B2 and B3, and the sums 4
\* and 6 of its columns to B2 and C2
ResultsFromCurrentCellSeen ==
    /\ call.op = "aggregate_range_from"
    /\ result = "Ok"
    /\ call.action = Some("Sum")
    /\ Unwrap(call.source).sheet = "Num"
    /\ SourceCorners = <<<<1, 1>>, <<2, 2>>>>
    /\ Anchor = <<2, 2>>
    /\ IF Unwrap(call.mode) = "Row"
       THEN After[<<2, 2>>] = <<"3">> /\ After[<<2, 3>>] = <<"7">>
       ELSE After[<<2, 2>>] = <<"4">> /\ After[<<3, 2>>] = <<"6">>

-----------------------------------------------------------------------------
(* The two aggregators and a text that is no number *)

\* the source range as <<start_row, start_col, end_row, end_col>>
SourceRange ==
    IF call.op = "transform_range_from_to" THEN Unwrap(call.source).range
    ELSE LET corners == SourceCorners
         IN  <<corners[1][2], corners[1][1], corners[2][2], corners[2][1]>>

\* the cells of a set that exist in the source sheet and hold a number
Numeric(cells) == {c \in Held(SourceSheet, cells) : ParseF64(SourceSheet[c]) # NONE}

\* the source range has a cell whose text is no number
HasNonNumeric ==
    \E c \in Held(SourceSheet, RangeCells(SourceRange)) : ParseF64(SourceSheet[c]) = NONE

\* C25: the aggregator of aggregate_range_from passes over a cell whose text
\* is no number: the sum of a line is the sum of the numbers on it, its count
\* the number of them, and the call fails only for an Average over a range
\* without any number; transform_range_from_to fails on a source range that
\* holds such a cell and leaves the destination file as it was.
NonNumericSkippedOrFatal ==
    /\ (call.op = "aggregate_range_from" /\ SourceFound) =>
           LET r == SourceRange
               mode == Unwrap(call.mode)
               action == Unwrap(call.action)
               after == After
           IN  IF action = "Average" /\ Numeric(RangeCells(r)) = {}
               THEN result = "DivisionByZero"
               ELSE /\ result = "Ok"
                    /\ action # "Average" =>
                           \A k \in 1..LineCount(r, mode) :
                               LET numbers == Numeric(LineCells(r, mode, k))
                               IN  get_cell(after, PasteCell(k - 1)) =
                                       Some(F64ToString(
                                           IF action = "Sum" THEN SumOf(SourceSheet, numbers)
                                           ELSE F64(Cardinality(numbers), 1)))
    /\ (call.op = "transform_range_from_to" /\ SourceFound) =>
           /\ HasNonNumeric => (result = "NonNumeric" /\ disk = pre_disk)
           /\ ~HasNonNumeric => result # "NonNumeric"

\* aggregate_range_from has written the sums 3.7 and -2.5 of the two rows of
\* Mixed, whose cell B1 holds the text NA, into Sheet1; transform_range_from_to
\* over the same range has failed and the file is as it was
NonNumericSkippedOrFatalSeen ==
    /\ call.op = "transform_range_from_to"
    /\ Unwrap(call.source).sheet = "Mixed"
    /\ SourceRange = <<1, 1, 2, 2>>
    /\ Unwrap(call.dest) = [path |-> TemplatePath, sheet |-> "Sheet1"]
    /\ result = "NonNumeric"
    /\ disk = pre_disk
    /\ spreadsheet["Sheet1"][<<1, 1>>] = <<"3", ".", "7">>
    /\ spreadsheet["Sheet1"][<<1, 2>>] = <<"-", "2", ".", "5">>

-----------------------------------------------------------------------------
(* Header references as the caller writes them *)

First_text == <<"f", "i", "r", "s", "t">>

Last_text == <<"l", "a", "s", "t">>

\* the object set_header_location was called with
HeaderObject == Unwrap(call.header)

\* a text that names no cell: it is not first or last and has no row number
NoRowText(obj) ==
    /\ "string" \in DOMAIN obj
    /\ obj.string \notin {First_text, Last_text}
    /\ \A i \in DOMAIN obj.string : ~is_numeric(obj.string[i])

\* a range of more than one row and more than one column
NotALine(obj) ==
    /\ "range" \in DOMAIN obj
    /\ obj.range[1][1] # obj.range[2][1]
    /\ obj.range[1][2] # obj.range[2][2]

\* the current cell as <<col, row>>
CurrentIdx == Unwrap(ExcelCell_idx(Unwrap(current_cell_in_current_sheet)))

\* C26: a malformed reference, here a header reference that is a text without
\* a row number or a range that is no line, comes back to the caller as the
\* InvalidReference failure, and no header reference makes the call panic.
MalformedReferenceFails ==
    call.op = "set_header_location" =>
        /\ result # "Panic"
        /\ (NoRowText(HeaderObject) \/ NotALine(HeaderObject)) => result = "InvalidReference"

\* C27: with a sheet selected, set_header_location takes each form of a header
\* reference: the text first makes A1 the current cell, the text last is
\* accepted, a cell given as the text B2 or as the pair (2, 2) becomes the
\* current cell, and a range of one row or one column makes its start the
\* current cell.
HeaderFormsAccepted ==
    (call.op = "set_header_location" /\ pre.current_sheet_name = Some("Sheet1")) =>
        LET obj == HeaderObject
        IN  /\ obj = [string |-> First_text] => (result = "Ok" /\ CurrentIdx = <<1, 1>>)
            /\ obj = [string |-> Last_text] => result = "Ok"
            /\ obj \in {[string |-> <<"B", "2">>], CellTuple(2, 2)} =>
                   (result = "Ok" /\ CurrentIdx = <<2, 2>>)
            /\ obj \in {[string |-> <<"A", "1", ":", "B", "1">>], RangeTuple(1, 1, 1, 2)} =>
                   (result = "Ok" /\ CurrentIdx = <<1, 1>>)
            /\ obj = RangeTuple(1, 2, 2, 2) => (result = "Ok" /\ CurrentIdx = <<2, 1>>)

\* C28: the Average of aggregate_range_from fails with the division-by-zero
\* error only when no line of the source range holds a number.  When some
\* line does, the call succeeds and writes one element for every line: the
\* quotient of sum and count for a line with numbers, and NaN, the quotient
\* 0/0, for a line without any.
AverageOfEmptyLineIsNaN ==
    (/\ call.op = "aggregate_range_from"
     /\ call.action = Some("Average")
     /\ Selected
     /\ SourceFound) =>
        LET r == SourceRange
            mode == Unwrap(call.mode)
            after == After
            lines == 1..LineCount(r, mode)
        IN  IF \A k \in lines : Numeric(LineCells(r, mode, k)) = {}
            THEN result = "DivisionByZero"
            ELSE /\ result = "Ok"
                 /\ \A k \in lines :
                        LET numbers == Numeric(LineCells(r, mode, k))
                        IN  get_cell(after, PasteCell(k - 1)) =
                                Some(IF numbers = {} THEN <<"N", "a", "N">>
                                     ELSE F64ToString(F64Div(SumOf(SourceSheet, numbers),
                                                             F64(Cardinality(numbers), 1))))

\* the average by rows of B1:B2 of Mixed, where B1 holds the text NA and B2
\* holds -2.5: NaN was written at the current cell and -2.5 below it
AverageOfEmptyLineIsNaNSeen ==
    /\ call.op = "aggregate_range_from"
    /\ call.action = Some("Average")
    /\ call.mode = Some("Row")
    /\ Selected
    /\ Unwrap(call.source).sheet = "Mixed"
    /\ SourceRange = <<1, 2, 2, 2>>
    /\ result = "Ok"
    /\ After[Anchor] = <<"N", "a", "N">>
    /\ After[<<Anchor[1], Anchor[2] + 1>>] = <<"-", "2", ".", "5">>

-----------------------------------------------------------------------------
(* goto_sheet without a cell *)

CellUsers == {"set_value", "copy_range_from", "aggregate_range_from"}

\* the step is a goto_sheet call without a cell: it leaves the named sheet
\* selected and no cell
ClearingStep ==
    (call'.op = "goto_sheet" /\ call'.cell = NONE) =>
        /\ current_sheet_name' = call'.sheet_name
        /\ current_cell_in_current_sheet' = NONE

\* the step is the first call after a goto_sheet call without a cell
AfterClearing == call.op = "goto_sheet" /\ call.cell = NONE /\ call'.op \in CellUsers

\* the step is a call made after goto_cell or set_header_location has set a cell
AfterReselecting ==
    /\ call.op \in {"goto_cell", "set_header_location"}
    /\ result = "Ok"
    /\ call'.op \in CellUsers

\* C29 as stated: goto_sheet(name) without a cell leaves the sheet selected
\* and no cell from any state, and a set_value, copy_range_from or
\* aggregate_range_from call that follows it fails with NoCellSelected.
ClearedCellFailsNext ==
    [][/\ ClearingStep
       /\ AfterClearing => result' = "NoCellSelected"]_vars

\* C29 amended: goto_sheet(name) without a cell leaves the sheet selected and
\* no cell from any state.  The call that follows fails: set_value with
\* NoCellSelected for any name; copy_range_from and aggregate_range_from with
\* NoCellSelected when name is a sheet of the workbook and with SheetNotFound
\* when it is not.  After goto_cell or set_header_location has set a cell no
\* call fails with NoCellSelected.
ClearedCellOrAbsentSheetFailsNext ==
    [][/\ ClearingStep
       /\ AfterClearing =>
              result' = IF call'.op = "set_value" \/ HasSheet(Now, Unwrap(current_sheet_name))
                        THEN "NoCellSelected"
                        ELSE "SheetNotFound"
       /\ AfterReselecting => result' # "NoCellSelected"]_vars

\* Sheet1 was selected and no cell, as only goto_sheet without a cell leaves
\* the cursor, and the copy_range_from that followed failed for want of a cell
ClearedCellOrAbsentSheetFailsNextSeen ==
    /\ call.op = "copy_range_from"
    /\ result = "NoCellSelected"
    /\ pre.current_sheet_name = Some("Sheet1")
    /\ pre.current_cell_in_current_sheet = NONE

-----------------------------------------------------------------------------
(* Two fills in a row *)

\* the names of the columns of the table of the call
TableNames == {col.name : col \in Range(Unwrap(call.df))}

\* the second fill_with of two, made where the first one left the cursor
SecondFill == n_calls = 2 /\ call.op = "fill_with"

\* C30: a successful fill_with leaves the cursor on its first data line, and
\* a fill_with that follows it with no call in between takes that line as its
\* header location: under strict it goes through exactly when the texts of
\* that line, from the cursor on, are the names of the table; its own first
\* data line is counted from that line (the line after it with overwrite) and
\* is where it leaves the cursor, no cell before it is changed, and by rows
\* without strict a value is written only under a cell of that line holding
\* the name of its column, or in the column after the sheet's highest one.
SecondFillReadsFirstDataLine ==
    /\ (n_calls = 1 /\ call.op = "fill_with" /\ result = "Ok") =>
           LET first == FirstDataLine
           IN  current_cell_in_current_sheet = Some(CellTuple(first[2], first[1]))
    /\ SecondFill =>
           LET first == FirstDataLine
               header == Anchor
               before == Before
               df == Unwrap(call.df)
               written == Written
               names == TableNames
           IN  /\ pre.current_cell_in_current_sheet = Some(CellTuple(header[2], header[1]))
               /\ UnwrapOr(call.strict, FALSE) =>
                      result = IF HeaderNames = names THEN "Ok" ELSE "ColumnMismatch"
               /\ result # "Ok" => written = {}
               /\ result = "Ok" =>
                      /\ current_cell_in_current_sheet = Some(CellTuple(first[2], first[1]))
                      /\ \A c \in written :
                             IF FillMode = "Row" THEN c[2] >= first[2] ELSE c[1] >= first[1]
                      /\ FillMode = "Row" =>
                             \A c \in written :
                                 c[2] < first[2] + df_height(df) =>
                                     \/ c[1] = get_highest_column(before) + 1
                                     \/ /\ c[1] \in header[1]..get_highest_column(before)
                                        /\ get_value(before, <<c[1], header[2]>>) \in names

\* the table Name/Age was written under the headers of row 1 with overwrite,
\* and written again at once: the second call read Ann, 30 of row 2 as the
\* headers, found neither Name nor Age there, and wrote row 3 in column C,
\* leaving A3 and B3 as they were
SecondFillReadsFirstDataLineSeen ==
    /\ SecondFill
    /\ result = "Ok"
    /\ FillMode = "Row"
    /\ call.df = Some(People)
    /\ call.overwrite = Some(TRUE)
    /\ pre.current_cell_in_current_sheet = Some(CellTuple(2, 1))
    /\ get_value(Before, <<1, 1>>) = Name
    /\ get_value(Before, <<1, 2>>) = Ann
    /\ HeaderNames = {Ann, <<"3", "0">>}
    /\ current_cell_in_current_sheet = Some(CellTuple(3, 1))
    /\ get_cell(After, <<3, 3>>) \in {Some(Ann), Some(<<"3", "0">>)}
    /\ get_cell(After, <<1, 3>>) = get_cell(Before, <<1, 3>>)

\* the second call, strict, found the names of its table on the line the
\* first call had written and went through
StrictSecondFillSeen ==
    /\ SecondFill
    /\ result = "Ok"
    /\ UnwrapOr(call.strict, FALSE)
    /\ HeaderNames = TableNames
    /\ pre.current_cell_in_current_sheet # Some(ExcelCell_default)

====
